---- MODULE Spec2Model ----
(***************************************************************************)
(* A model of the riscv-vm core (src/riscv_core/riscv.c): the hart state,  *)
(* the opcode handlers, the dispatch table, rv_reset and the two rv_step   *)
(* run loops (interpreter-only and RISCV_VM_X64_JIT).                      *)
(*                                                                         *)
(* Representation of machine integers.  A uint32_t is represented by the   *)
(* integer of -2^31 .. 2^31-1 that is congruent to it modulo 2^32, i.e. by *)
(* its (int32_t) reading: 0xFFFFFFFF is -1, 0x80000000 is -2^31.  Every    *)
(* operation below is computed modulo 2^32 on that representation.  The    *)
(* 64-bit csr_cycle is the pair of its two 32-bit halves, which is also    *)
(* the view csr_get_ptr takes of it.                                       *)
(***************************************************************************)
EXTENDS Integers, Sequences, FiniteSets, TLC

----------------------------------------------------------------------------
(* 32-bit arithmetic *)

Pow2(k) == 2 ^ k

\* the int32_t limits, written so that no literal exceeds 2^31-1
INT32_MAX == 2147483647
INT32_MIN == (0 - INT32_MAX) - 1

Word == INT32_MIN .. INT32_MAX

\* halves of a word: Hi16 is signed (-32768..32767), Lo16 is 0..65535
Hi16(w) == w \div 65536
Lo16(w) == w % 65536

\* the word whose upper half is hi (taken modulo 2^16) and lower half is lo
MkWord(hi, lo) == (((hi + 32768) % 65536) - 32768) * 65536 + lo

\* a word given by its hexadecimal halves: U32(65535, 65535) is 0xFFFFFFFF
U32(hi, lo) == MkWord(hi, lo)

\* (uint32_t)(a + b)
Add32(a, b) ==
  LET lo == Lo16(a) + Lo16(b)
  IN  MkWord(Hi16(a) + Hi16(b) + (lo \div 65536), lo % 65536)

\* ~a
Not32(a) == (0 - 1) - a

\* (uint32_t)(a - b)
Sub32(a, b) == Add32(Add32(a, Not32(b)), 1)

\* a < b on int32_t
SLt(a, b) == a < b

\* a < b on uint32_t
ULt(a, b) ==
  IF (a >= 0) = (b >= 0) THEN a < b ELSE a >= 0

\* bitwise operations on non-negative integers below 2^n
RECURSIVE BitOp(_, _, _, _)
BitOp(op, a, b, n) ==
  IF n = 0 THEN 0
  ELSE LET x == a % 2
           y == b % 2
           z == CASE op = "and" -> IF x = 1 /\ y = 1 THEN 1 ELSE 0
                  [] op = "or"  -> IF x = 1 \/ y = 1 THEN 1 ELSE 0
                  [] op = "xor" -> IF x # y THEN 1 ELSE 0
       IN  z + 2 * BitOp(op, a \div 2, b \div 2, n - 1)

Bit32(op, a, b) ==
  MkWord(BitOp(op, Hi16(a) % 65536, Hi16(b) % 65536, 16),
         BitOp(op, Lo16(a), Lo16(b), 16))

And32(a, b) == Bit32("and", a, b)
Or32(a, b)  == Bit32("or", a, b)
Xor32(a, b) == Bit32("xor", a, b)

\* a << k on uint32_t, 0 <= k <= 31
Shl32(a, k) ==
  IF k < 16
  THEN LET lo == Lo16(a) * Pow2(k)
       IN  MkWord(((Hi16(a) % 65536) * Pow2(k) + (lo \div 65536)) % 65536, lo % 65536)
  ELSE MkWord((Lo16(a) * Pow2(k - 16)) % 65536, 0)

\* a >> k on uint32_t (logical), 0 <= k <= 31
Shr32(a, k) ==
  IF k = 0 THEN a
  ELSE LET one == IF a >= 0 THEN a \div 2
                  ELSE ((a \div 2) + 1073741824) + 1073741824
       IN  one \div Pow2(k - 1)

\* a >> k on int32_t (arithmetic), 0 <= k <= 31
Sar32(a, k) ==
  IF k = 31 THEN (IF a < 0 THEN 0 - 1 ELSE 0) ELSE a \div Pow2(k)

\* bits lo .. lo+n-1 of a word, as a number 0 .. 2^n-1  (lo <= 30)
Bits(w, lo, n) == (w \div Pow2(lo)) % Pow2(n)

\* sign_extend_b / sign_extend_h: a byte or halfword widened as int8_t/int16_t
sign_extend_b(x) == IF (x % 256) >= 128 THEN (x % 256) - 256 ELSE x % 256
sign_extend_h(x) == IF (x % 65536) >= 32768 THEN (x % 65536) - 65536 ELSE x % 65536

----------------------------------------------------------------------------
(* 64-bit unsigned arithmetic for csr_cycle: [lo, hi], two words *)

U64(hi, lo) == [lo |-> lo, hi |-> hi]

\* c + 1
Inc64(c) ==
  [lo |-> Add32(c.lo, 1),
   hi |-> IF c.lo = 0 - 1 THEN Add32(c.hi, 1) ELSE c.hi]

\* c + (uint64_t)(int64_t)n for an int32_t n: the usual arithmetic conversion
\* of "rv->csr_cycle + cycles"
Add64s(c, n) ==
  LET lo    == Add32(c.lo, n)
      carry == IF ULt(lo, c.lo) THEN 1 ELSE 0
      ext   == IF n < 0 THEN 0 - 1 ELSE 0
  IN  [lo |-> lo, hi |-> Add32(Add32(c.hi, ext), carry)]

\* a < b on uint64_t
ULt64(a, b) ==
  IF a.hi # b.hi THEN ULt(a.hi, b.hi) ELSE ULt(a.lo, b.lo)

----------------------------------------------------------------------------
(* Instruction decoding (riscv_private.h: dec_* and the INST_6_2 mask) *)

\* (inst & INST_6_2) >> 2: the index into the dispatch table
dec_index(inst)  == Bits(inst, 2, 5)
dec_rd(inst)     == Bits(inst, 7, 5)
dec_funct3(inst) == Bits(inst, 12, 3)
dec_rs1(inst)    == Bits(inst, 15, 5)
dec_rs2(inst)    == Bits(inst, 20, 5)
dec_funct7(inst) == Bits(inst, 25, 7)
dec_csr(inst)    == Bits(inst, 20, 12)

\* imm[11:0] = inst[31:20], sign-extended
dec_itype_imm(inst) == inst \div Pow2(20)

\* imm[11:5] = inst[31:25], imm[4:0] = inst[11:7], sign-extended
dec_stype_imm(inst) == (inst \div Pow2(25)) * 32 + Bits(inst, 7, 5)

\* imm[12|10:5] = inst[31:25], imm[4:1|11] = inst[11:7], sign-extended
dec_btype_imm(inst) ==
  (IF inst < 0 THEN 0 - 4096 ELSE 0) + Bits(inst, 7, 1) * 2048
    + Bits(inst, 25, 6) * 32 + Bits(inst, 8, 4) * 2

\* imm[31:12] = inst[31:12], low 12 bits zero
dec_utype_imm(inst) == inst - (inst % 4096)

\* imm[20|10:1|11|19:12] = inst[31:12], sign-extended
dec_jtype_imm(inst) ==
  (IF inst < 0 THEN 0 - 1048576 ELSE 0) + Bits(inst, 12, 8) * 4096
    + Bits(inst, 20, 1) * 2048 + Bits(inst, 21, 10) * 2

\* fmt = inst[26:25], rs3 = inst[31:27]
dec_r4type_fmt(inst) == Bits(inst, 25, 2)
dec_r4type_rs3(inst) == Bits(inst, 27, 5)

(* Instruction encoding, used to write the programs the model runs *)

\* a word from its fields: opcode[6:0], [11:7], [14:12], [19:15], [24:20], [31:25]
EncFields(opcode, f7_11, f12_14, f15_19, f20_24, f25_31) ==
  MkWord((f15_19 \div 2) + f20_24 * 16 + f25_31 * 512,
         opcode + f7_11 * 128 + f12_14 * 4096 + (f15_19 % 2) * 32768)

EncR(opcode, rd, funct3, rs1, rs2, funct7) ==
  EncFields(opcode, rd, funct3, rs1, rs2, funct7)

\* imm is a signed 12-bit value
EncI(opcode, rd, funct3, rs1, imm) ==
  EncFields(opcode, rd, funct3, rs1, imm % 32, (imm \div 32) % 128)

EncS(opcode, funct3, rs1, rs2, imm) ==
  EncFields(opcode, imm % 32, funct3, rs1, rs2, (imm \div 32) % 128)

\* imm is a signed 13-bit value (bit 0 is not encoded)
EncB(opcode, funct3, rs1, rs2, imm) ==
  EncFields(opcode, ((imm \div 2) % 16) * 2 + ((imm \div 2048) % 2), funct3,
            rs1, rs2, ((imm \div 32) % 64) + ((imm \div 4096) % 2) * 64)

\* imm20 is the 20-bit upper immediate, 0 .. 2^20-1
EncU(opcode, rd, imm20) ==
  EncFields(opcode, rd, imm20 % 8, (imm20 \div 8) % 32, (imm20 \div 256) % 32,
            (imm20 \div 8192) % 128)

\* imm is a signed 21-bit value (bit 0 is not encoded)
EncJ(opcode, rd, imm) ==
  EncFields(opcode, rd, (imm \div 4096) % 8, (imm \div 32768) % 32,
            ((imm \div 2048) % 2) + ((imm \div 2) % 16) * 2,
            ((imm \div 32) % 64) + ((imm \div 1048576) % 2) * 64)

----------------------------------------------------------------------------
(* Program constants (riscv.h / riscv_private.h) *)

RV_NUM_REGS == 32
Regs == 0 .. (RV_NUM_REGS - 1)

rv_reg_zero == 0
rv_reg_sp   == 2

\* 0xFFFFF000
DEFAULT_STACK_ADDR == U32(65535, 61440)

rv_except_none            == "none"
rv_except_inst_misaligned == "inst_misaligned"

CSR_FCSR    == 3
CSR_MSTATUS == 768
CSR_CYCLE   == 3072
CSR_CYCLEH  == 3200

\* FMASK_SIGN = 0x80000000, FMASK_EXPN = 0x7F800000, FMASK_FRAC = 0x007FFFFF
FMASK_SIGN == INT32_MIN
FMASK_EXPN == U32(32640, 0)
FMASK_FRAC == U32(127, 65535)

----------------------------------------------------------------------------
(* The host: a byte memory behind the mem_read / mem_write callbacks, a    *)
(* read-only code region behind mem_ifetch, and the ECALL / EBREAK hooks.  *)
(* Memory is little-endian; bytes outside MemAddrs read as 0 and writes to *)
(* them are dropped.                                                       *)

\* number of bytes of host data memory
MemSize == 8
MemAddrs == 0 .. (MemSize - 1)

host_read_b(mem, addr) == IF addr \in DOMAIN mem THEN mem[addr] ELSE 0
host_read_s(mem, addr) ==
  host_read_b(mem, addr) + 256 * host_read_b(mem, Add32(addr, 1))
host_read_w(mem, addr) ==
  MkWord(host_read_s(mem, Add32(addr, 2)), host_read_s(mem, addr))

\* the callbacks take uint8_t / uint16_t / uint32_t data: the argument is
\* converted (truncated) to that width at the call
host_write_b(mem, addr, data) ==
  IF addr \in DOMAIN mem THEN [mem EXCEPT ![addr] = data % 256] ELSE mem
host_write_s(mem, addr, data) ==
  host_write_b(host_write_b(mem, addr, data % 256),
               Add32(addr, 1), (data \div 256) % 256)
host_write_w(mem, addr, data) ==
  host_write_s(host_write_s(mem, addr, Lo16(data)),
               Add32(addr, 2), Hi16(data) % 65536)

\* one callback invocation, as the host sees it
Ev(cb, addr, val) == [cb |-> cb, addr |-> addr, val |-> val]

----------------------------------------------------------------------------
(* Handler results.  A handler maps the hart rv, the host memory mem and   *)
(* the instruction word to the new hart and memory, the callbacks it made  *)
(* (io), its boolean return value (ret) and whether it ran to its end (ok  *)
(* is FALSE when an assert(!"unreachable") was hit).  The argument h       *)
(* carries what the host decides during the call.                          *)

Res(rv, mem, io, ret) == [rv |-> rv, mem |-> mem, io |-> io, ret |-> ret, ok |-> TRUE]

\* assert(!"unreachable"), assert(op)
Unreachable(rv, mem) == [rv |-> rv, mem |-> mem, io |-> <<>>, ret |-> FALSE, ok |-> FALSE]

\* rv->X[rd] = v
SetX(rv, rd, v) == [rv EXCEPT !.X[rd] = v]

\* rv->PC += 4
StepOver(rv) == [rv EXCEPT !.PC = Add32(rv.PC, 4)]

\* if (rd == rv_reg_zero) rv->X[rv_reg_zero] = 0
EnforceZero(rv, rd) ==
  IF rd = rv_reg_zero THEN [rv EXCEPT !.X[rv_reg_zero] = 0] ELSE rv

\* faulty variant: the exception is dropped
raise_exception_dropped(rv, type) == rv

\* raise_exception
raise_exception(rv, type) == [rv EXCEPT !.exception = type]

\* the common tail of the integer handlers: write rd, step over, enforce x0
WriteBack(rv, rd, v) == EnforceZero(StepOver(SetX(rv, rd, v)), rd)

----------------------------------------------------------------------------
(* Multiplication and division as C computes them *)

\* byte i (0..3) of a word
Byte(w, i) == Bits(w, 8 * i, 8)

\* the eight bytes of a 64-bit value, least significant first
Bytes64(v) == [i \in 0 .. 7 |-> IF i < 4 THEN Byte(v.lo, i) ELSE Byte(v.hi, i - 4)]

\* (int64_t)(int32_t)w and (uint64_t)w
SExt64(w) == U64(IF w < 0 THEN 0 - 1 ELSE 0, w)
ZExt64(w) == U64(0, w)

\* column k of the schoolbook product of two byte strings
RECURSIVE MulColumn(_, _, _, _)
MulColumn(a, b, k, i) ==
  IF i > k THEN 0 ELSE a[i] * b[k - i] + MulColumn(a, b, k, i + 1)

\* bytes k .. 7 of the product, given the carry into column k
RECURSIVE MulBytes(_, _, _, _)
MulBytes(a, b, k, carry) ==
  IF k > 7 THEN <<>>
  ELSE LET t == MulColumn(a, b, k, 0) + carry
       IN  <<t % 256>> \o MulBytes(a, b, k + 1, t \div 256)

\* x * y on 64-bit operands, modulo 2^64
Mul64(x, y) ==
  LET r == MulBytes(Bytes64(x), Bytes64(y), 0, 0)
  IN  U64(MkWord(r[8] * 256 + r[7], r[6] * 256 + r[5]),
          MkWord(r[4] * 256 + r[3], r[2] * 256 + r[1]))

\* dividend / divisor on int32_t (truncating), divisor # 0, no overflow case
SDiv32(a, b) ==
  IF b = INT32_MIN THEN (IF a = INT32_MIN THEN 1 ELSE 0)
  ELSE LET d == IF b < 0 THEN 0 - b ELSE b
           f == a \div d
           q == IF a < 0 /\ a % d # 0 THEN f + 1 ELSE f
       IN  IF b < 0 THEN 0 - q ELSE q

\* dividend % divisor on int32_t (sign of the dividend), divisor # 0
SRem32(a, b) ==
  IF b = INT32_MIN THEN (IF a = INT32_MIN THEN 0 ELSE a)
  ELSE LET d == IF b < 0 THEN 0 - b ELSE b
           r == a % d
       IN  IF a < 0 /\ r # 0 THEN r - d ELSE r

\* <<quotient, remainder>> of dividend / divisor on uint32_t, divisor # 0
UDivRem32(a, b) ==
  IF b < 0 THEN (IF ULt(a, b) THEN <<0, a>> ELSE <<1, Sub32(a, b)>>)
  ELSE IF a >= 0 THEN <<a \div b, a % b>>
  ELSE LET h  == Shr32(a, 1)
           l  == a % 2
           q0 == h \div b
           r0 == h % b
           t  == (r0 - (b - r0)) + l
       IN  IF t >= 0 THEN <<Add32(Add32(q0, q0), 1), t>>
           ELSE <<Add32(q0, q0), 2 * r0 + l>>

UDiv32(a, b) == UDivRem32(a, b)[1]
URem32(a, b) == UDivRem32(a, b)[2]

----------------------------------------------------------------------------
(* Opcode handlers *)

\* faulty variant: LH does not sign-extend the halfword
op_load_lh_unsigned(rv, mem, inst, h) ==
  LET imm    == dec_itype_imm(inst)
      rs1    == dec_rs1(inst)
      funct3 == dec_funct3(inst)
      rd     == dec_rd(inst)
      addr   == Add32(rv.X[rs1], imm)
      b      == host_read_b(mem, addr)
      s      == host_read_s(mem, addr)
      w      == host_read_w(mem, addr)
  IN  CASE funct3 = 0 ->  \* LB
             Res(WriteBack(rv, rd, sign_extend_b(b)), mem,
                 <<Ev("mem_read_b", addr, b)>>, TRUE)
        [] funct3 = 1 ->  \* LH
             Res(WriteBack(rv, rd, s), mem,
                 <<Ev("mem_read_s", addr, s)>>, TRUE)
        [] funct3 = 2 ->  \* LW
             Res(WriteBack(rv, rd, w), mem, <<Ev("mem_read_w", addr, w)>>, TRUE)
        [] funct3 = 4 ->  \* LBU
             Res(WriteBack(rv, rd, b), mem, <<Ev("mem_read_b", addr, b)>>, TRUE)
        [] funct3 = 5 ->  \* LHU
             Res(WriteBack(rv, rd, s), mem, <<Ev("mem_read_s", addr, s)>>, TRUE)
        [] OTHER -> Unreachable(rv, mem)

op_load(rv, mem, inst, h) ==
  LET imm    == dec_itype_imm(inst)
      rs1    == dec_rs1(inst)
      funct3 == dec_funct3(inst)
      rd     == dec_rd(inst)
      addr   == Add32(rv.X[rs1], imm)
      b      == host_read_b(mem, addr)
      s      == host_read_s(mem, addr)
      w      == host_read_w(mem, addr)
  IN  CASE funct3 = 0 ->  \* LB
             Res(WriteBack(rv, rd, sign_extend_b(b)), mem,
                 <<Ev("mem_read_b", addr, b)>>, TRUE)
        [] funct3 = 1 ->  \* LH
             Res(WriteBack(rv, rd, sign_extend_h(s)), mem,
                 <<Ev("mem_read_s", addr, s)>>, TRUE)
        [] funct3 = 2 ->  \* LW
             Res(WriteBack(rv, rd, w), mem, <<Ev("mem_read_w", addr, w)>>, TRUE)
        [] funct3 = 4 ->  \* LBU
             Res(WriteBack(rv, rd, b), mem, <<Ev("mem_read_b", addr, b)>>, TRUE)
        [] funct3 = 5 ->  \* LHU
             Res(WriteBack(rv, rd, s), mem, <<Ev("mem_read_s", addr, s)>>, TRUE)
        [] OTHER -> Unreachable(rv, mem)

op_misc_mem(rv, mem, inst, h) == Res(StepOver(rv), mem, <<>>, TRUE)

\* faulty variant: a shift source above 31 is clamped to 31, not masked
shamt_clamped(src) == IF src \in 0 .. 31 THEN src ELSE 31

\* the shift amount: the low 5 bits of the shift source (src & 0x1f)
shamt(src) == src % 32

\* the value op_op_imm computes for rd; "unreachable" when no case applies
op_imm_value(rv, inst) ==
  LET imm    == dec_itype_imm(inst)
      rs1    == dec_rs1(inst)
      funct3 == dec_funct3(inst)
      a      == rv.X[rs1]
  IN  CASE funct3 = 0 -> Add32(a, imm)                          \* ADDI
        [] funct3 = 1 -> Shl32(a, shamt(imm))                     \* SLLI
        [] funct3 = 2 -> IF SLt(a, imm) THEN 1 ELSE 0           \* SLTI
        [] funct3 = 3 -> IF ULt(a, imm) THEN 1 ELSE 0           \* SLTIU
        [] funct3 = 4 -> Xor32(a, imm)                          \* XORI
        [] funct3 = 5 -> IF imm - (imm % 32) # 0                \* imm & ~0x1f
                         THEN Sar32(a, shamt(imm))                \* SRAI
                         ELSE Shr32(a, shamt(imm))                \* SRLI
        [] funct3 = 6 -> Or32(a, imm)                           \* ORI
        [] funct3 = 7 -> And32(a, imm)                          \* ANDI

op_op_imm(rv, mem, inst, h) ==
  Res(WriteBack(rv, dec_rd(inst), op_imm_value(rv, inst)), mem, <<>>, TRUE)

op_auipc(rv, mem, inst, h) ==
  LET rd  == dec_rd(inst)
      val == Add32(dec_utype_imm(inst), rv.PC)
  IN  Res(WriteBack(rv, rd, val), mem, <<>>, TRUE)

op_store(rv, mem, inst, h) ==
  LET imm    == dec_stype_imm(inst)
      rs1    == dec_rs1(inst)
      rs2    == dec_rs2(inst)
      funct3 == dec_funct3(inst)
      addr   == Add32(rv.X[rs1], imm)
      data   == rv.X[rs2]
  IN  CASE funct3 = 0 ->  \* SB
             Res(StepOver(rv), host_write_b(mem, addr, data),
                 <<Ev("mem_write_b", addr, data % 256)>>, TRUE)
        [] funct3 = 1 ->  \* SH
             Res(StepOver(rv), host_write_s(mem, addr, data),
                 <<Ev("mem_write_s", addr, data % 65536)>>, TRUE)
        [] funct3 = 2 ->  \* SW
             Res(StepOver(rv), host_write_w(mem, addr, data),
                 <<Ev("mem_write_w", addr, data)>>, TRUE)
        [] OTHER -> Unreachable(rv, mem)

\* RV32M DIV / DIVU / REM / REMU
op_div(a, b) ==
  IF b = 0 THEN 0 - 1                                   \* ~0u
  ELSE IF b = 0 - 1 /\ a = INT32_MIN THEN a
  ELSE SDiv32(a, b)

op_divu(a, b) == IF b = 0 THEN 0 - 1 ELSE UDiv32(a, b)

\* faulty variant: a remainder by zero is 0, not the dividend
op_rem_zero(a, b) ==
  IF b = 0 THEN 0
  ELSE IF b = 0 - 1 /\ a = INT32_MIN THEN 0
  ELSE SRem32(a, b)

op_rem(a, b) ==
  IF b = 0 THEN a
  ELSE IF b = 0 - 1 /\ a = INT32_MIN THEN 0
  ELSE SRem32(a, b)

op_remu(a, b) == IF b = 0 THEN a ELSE URem32(a, b)

\* the funct7 / funct3 pairs op_op has a case for
op_op_reachable(inst) ==
  LET funct3 == dec_funct3(inst)
      funct7 == dec_funct7(inst)
  IN  funct7 \in {0, 1} \/ (funct7 = 32 /\ funct3 \in {0, 5})

\* faulty variant: MULHSU multiplies signed by signed
op_op_value_mulhsu_signed(rv, inst) ==
  LET funct3 == dec_funct3(inst)
      funct7 == dec_funct7(inst)
      a      == rv.X[dec_rs1(inst)]
      b      == rv.X[dec_rs2(inst)]
  IN  CASE funct7 = 0 ->
             ( CASE funct3 = 0 -> Add32(a, b)                    \* ADD
                 [] funct3 = 1 -> Shl32(a, shamt(b))             \* SLL
                 [] funct3 = 2 -> IF SLt(a, b) THEN 1 ELSE 0     \* SLT
                 [] funct3 = 3 -> IF ULt(a, b) THEN 1 ELSE 0     \* SLTU
                 [] funct3 = 4 -> Xor32(a, b)                    \* XOR
                 [] funct3 = 5 -> Shr32(a, shamt(b))             \* SRL
                 [] funct3 = 6 -> Or32(a, b)                     \* OR
                 [] funct3 = 7 -> And32(a, b) )                  \* AND
        [] funct7 = 1 ->
             ( CASE funct3 = 0 -> Mul64(SExt64(a), SExt64(b)).lo \* MUL
                 [] funct3 = 1 -> Mul64(SExt64(a), SExt64(b)).hi \* MULH
                 [] funct3 = 2 -> Mul64(SExt64(a), SExt64(b)).hi \* MULHSU
                 [] funct3 = 3 -> Mul64(ZExt64(a), ZExt64(b)).hi \* MULHU
                 [] funct3 = 4 -> op_div(a, b)                   \* DIV
                 [] funct3 = 5 -> op_divu(a, b)                  \* DIVU
                 [] funct3 = 6 -> op_rem(a, b)                   \* REM
                 [] funct3 = 7 -> op_remu(a, b) )                \* REMU
        [] funct7 = 32 ->
             ( CASE funct3 = 0 -> Sub32(a, b)                    \* SUB
                 [] funct3 = 5 -> Sar32(a, shamt(b)) )           \* SRA

\* the value op_op computes for rd
op_op_value(rv, inst) ==
  LET funct3 == dec_funct3(inst)
      funct7 == dec_funct7(inst)
      a      == rv.X[dec_rs1(inst)]
      b      == rv.X[dec_rs2(inst)]
  IN  CASE funct7 = 0 ->
             ( CASE funct3 = 0 -> Add32(a, b)                    \* ADD
                 [] funct3 = 1 -> Shl32(a, shamt(b))             \* SLL
                 [] funct3 = 2 -> IF SLt(a, b) THEN 1 ELSE 0     \* SLT
                 [] funct3 = 3 -> IF ULt(a, b) THEN 1 ELSE 0     \* SLTU
                 [] funct3 = 4 -> Xor32(a, b)                    \* XOR
                 [] funct3 = 5 -> Shr32(a, shamt(b))             \* SRL
                 [] funct3 = 6 -> Or32(a, b)                     \* OR
                 [] funct3 = 7 -> And32(a, b) )                  \* AND
        [] funct7 = 1 ->
             ( CASE funct3 = 0 -> Mul64(SExt64(a), SExt64(b)).lo \* MUL
                 [] funct3 = 1 -> Mul64(SExt64(a), SExt64(b)).hi \* MULH
                 [] funct3 = 2 -> Mul64(SExt64(a), ZExt64(b)).hi \* MULHSU
                 [] funct3 = 3 -> Mul64(ZExt64(a), ZExt64(b)).hi \* MULHU
                 [] funct3 = 4 -> op_div(a, b)                   \* DIV
                 [] funct3 = 5 -> op_divu(a, b)                  \* DIVU
                 [] funct3 = 6 -> op_rem(a, b)                   \* REM
                 [] funct3 = 7 -> op_remu(a, b) )                \* REMU
        [] funct7 = 32 ->
             ( CASE funct3 = 0 -> Sub32(a, b)                    \* SUB
                 [] funct3 = 5 -> Sar32(a, shamt(b)) )           \* SRA

op_op(rv, mem, inst, h) ==
  IF ~op_op_reachable(inst) THEN Unreachable(rv, mem)
  ELSE Res(WriteBack(rv, dec_rd(inst), op_op_value(rv, inst)), mem, <<>>, TRUE)

op_lui(rv, mem, inst, h) ==
  Res(WriteBack(rv, dec_rd(inst), dec_utype_imm(inst)), mem, <<>>, TRUE)


\* the comparison op_branch makes; funct3 2 and 3 have no case
branch_taken(rv, inst) ==
  LET func3 == dec_funct3(inst)
      a     == rv.X[dec_rs1(inst)]
      b     == rv.X[dec_rs2(inst)]
  IN  CASE func3 = 0 -> a = b          \* BEQ
        [] func3 = 1 -> a # b          \* BNE
        [] func3 = 4 -> SLt(a, b)      \* BLT
        [] func3 = 5 -> ~SLt(a, b)     \* BGE
        [] func3 = 6 -> ULt(a, b)      \* BLTU
        [] func3 = 7 -> ~ULt(a, b)     \* BGEU

\* rv->PC & 0x3
Misaligned(pc) == pc % 4 # 0

\* faulty variant: the alignment of the branch target is checked before the
\* taken test, so a branch that is not taken raises too
branch_action_checks_first(rv, taken, imm) ==
  LET r == IF taken THEN [rv EXCEPT !.PC = Add32(rv.PC, imm)] ELSE StepOver(rv)
  IN  IF Add32(rv.PC, imm) % 4 # 0
      THEN [r EXCEPT !.exception = rv_except_inst_misaligned] ELSE r

\* the "perform branch action" part of op_branch
branch_action(rv, taken, imm) ==
  IF taken
  THEN LET r == [rv EXCEPT !.PC = Add32(rv.PC, imm)]
       IN  IF Misaligned(r.PC)
           THEN raise_exception(r, rv_except_inst_misaligned) ELSE r
  ELSE StepOver(rv)

op_branch(rv, mem, inst, h) ==
  IF dec_funct3(inst) \in {2, 3} THEN Unreachable(rv, mem)
  ELSE Res(branch_action(rv, branch_taken(rv, inst), dec_btype_imm(inst)),
           mem, <<>>, FALSE)

\* faulty variant: a misaligned target raises before the jump and the link
jump_link_checks_first(rv, rd, ra, target) ==
  IF Misaligned(target) THEN raise_exception(rv, rv_except_inst_misaligned)
  ELSE LET j == [rv EXCEPT !.PC = target]
       IN  IF rd # rv_reg_zero THEN SetX(j, rd, ra) ELSE j

\* jump to target, link ra into rd, check the alignment of the new PC
jump_link(rv, rd, ra, target) ==
  LET j == [rv EXCEPT !.PC = target]
      l == IF rd # rv_reg_zero THEN SetX(j, rd, ra) ELSE j
  IN  IF Misaligned(l.PC) THEN raise_exception(l, rv_except_inst_misaligned) ELSE l

op_jalr(rv, mem, inst, h) ==
  LET rd  == dec_rd(inst)
      rs1 == dec_rs1(inst)
      imm == dec_itype_imm(inst)
      ra  == Add32(rv.PC, 4)
      sum == Add32(rv.X[rs1], imm)
  IN  Res(jump_link(rv, rd, ra, sum - (sum % 2)), mem, <<>>, FALSE)   \* & ~1u

op_jal(rv, mem, inst, h) ==
  LET rd  == dec_rd(inst)
      rel == dec_jtype_imm(inst)
      ra  == Add32(rv.PC, 4)
  IN  Res(jump_link(rv, rd, ra, Add32(rv.PC, rel)), mem, <<>>, FALSE)

----------------------------------------------------------------------------
(* Zicsr *)

csr_known(csr) == csr \in {CSR_CYCLE, CSR_CYCLEH, CSR_MSTATUS, CSR_FCSR}

\* *csr_get_ptr(rv, csr), for a known csr
csr_get(rv, csr) ==
  CASE csr = CSR_CYCLE   -> rv.csr_cycle.lo
    [] csr = CSR_CYCLEH  -> rv.csr_cycle.hi
    [] csr = CSR_MSTATUS -> rv.csr_mstatus
    [] csr = CSR_FCSR    -> rv.csr_fcsr

\* *csr_get_ptr(rv, csr) = v, for a known csr
csr_put(rv, csr, v) ==
  CASE csr = CSR_CYCLE   -> [rv EXCEPT !.csr_cycle.lo = v]
    [] csr = CSR_CYCLEH  -> [rv EXCEPT !.csr_cycle.hi = v]
    [] csr = CSR_MSTATUS -> [rv EXCEPT !.csr_mstatus = v]
    [] csr = CSR_FCSR    -> [rv EXCEPT !.csr_fcsr = v]

\* faulty variant: fcsr is writable too
csr_is_writable_fcsr(csr) == csr \in {CSR_MSTATUS, CSR_FCSR}

\* faulty variant: the low word of cycle is writable too
csr_is_writable_cycle(csr) == csr \in {CSR_MSTATUS, CSR_CYCLE}

\* faulty variant: every known CSR is writable
csr_is_writable_all(csr) == csr_known(csr)

csr_is_writable(csr) == csr = CSR_MSTATUS

\* faulty variant: an unknown csr reads as all ones
csr_update_unknown_ones(rv, csr, new) ==
  IF ~csr_known(csr) THEN [out |-> 0 - 1, rv |-> rv]
  ELSE [out |-> csr_get(rv, csr),
        rv  |-> IF csr_is_writable(csr) THEN csr_put(rv, csr, new) ELSE rv]

\* csr_csrrw / csr_csrrs / csr_csrrc: [out |-> the value returned, rv |-> the hart]
csr_update(rv, csr, new) ==
  IF ~csr_known(csr) THEN [out |-> 0, rv |-> rv]
  ELSE [out |-> csr_get(rv, csr),
        rv  |-> IF csr_is_writable(csr) THEN csr_put(rv, csr, new) ELSE rv]

csr_csrrw(rv, csr, val) == csr_update(rv, csr, val)
csr_csrrs(rv, csr, val) ==
  csr_update(rv, csr, IF csr_known(csr) THEN Or32(csr_get(rv, csr), val) ELSE 0)
csr_csrrc(rv, csr, val) ==
  csr_update(rv, csr, IF csr_known(csr) THEN And32(csr_get(rv, csr), Not32(val)) ELSE 0)

\* what an ECALL / EBREAK hook may do to the hart before it returns: leave it
\* alone (h.exc = "none") or latch h.exc to stop the run loop
host_trap(rv, h) ==
  IF h.exc = rv_except_none THEN rv ELSE [rv EXCEPT !.exception = h.exc]

op_system(rv, mem, inst, h) ==
  LET imm    == dec_itype_imm(inst)
      csr    == dec_csr(inst)
      funct3 == dec_funct3(inst)
      rs1    == dec_rs1(inst)
      rd     == dec_rd(inst)
      tail(r) == EnforceZero(StepOver(r), rd)
      csrop  == CASE funct3 = 1 -> csr_csrrw(rv, csr, rs1)
                  [] funct3 = 2 -> csr_csrrs(rv, csr, rs1)
                  [] funct3 = 3 -> csr_csrrc(rv, csr, rs1)
  IN  CASE funct3 = 0 /\ imm = 0 ->   \* ECALL
             Res(tail(host_trap(rv, h)), mem, <<Ev("on_ecall", rv.PC, inst)>>, TRUE)
        [] funct3 = 0 /\ imm = 1 ->   \* EBREAK
             Res(tail(host_trap(rv, h)), mem, <<Ev("on_ebreak", rv.PC, inst)>>, TRUE)
        [] funct3 \in {1, 2, 3} ->    \* CSRRW, CSRRS, CSRRC
             Res(tail(SetX(csrop.rv, rd, csrop.out)), mem, <<>>, TRUE)
        [] funct3 \in {5, 6, 7} ->    \* CSRRWI, CSRRSI, CSRRCI
             Res(tail(rv), mem, <<>>, TRUE)
        [] OTHER -> Unreachable(rv, mem)

----------------------------------------------------------------------------
(* RV32A *)

\* the value an AMO computes from the loaded word a (read back from X[rd])
\* and b = X[rs2]
amo_value(funct5, a, b) ==
  CASE funct5 = 1  -> b                                   \* AMOSWAP.W
    [] funct5 = 0  -> Add32(a, b)                         \* AMOADD.W
    [] funct5 = 4  -> Xor32(a, b)                         \* AMOXOR.W
    [] funct5 = 12 -> And32(a, b)                         \* AMOAND.W
    [] funct5 = 8  -> Or32(a, b)                          \* AMOOR.W
    [] funct5 = 16 -> IF SLt(a, b) THEN a ELSE b          \* AMOMIN.W
    [] funct5 = 20 -> IF SLt(b, a) THEN a ELSE b          \* AMOMAX.W
    [] funct5 = 24 -> IF ULt(a, b) THEN a ELSE b          \* AMOMINU.W
    [] funct5 = 28 -> IF ULt(b, a) THEN a ELSE b          \* AMOMAXU.W

\* faulty variant: SC.W writes its result to X[rd] before it stores
op_amo_sc_result_first(rv, mem, inst, h) ==
  LET rd     == dec_rd(inst)
      rs1    == dec_rs1(inst)
      rs2    == dec_rs2(inst)
      funct5 == Bits(inst, 27, 5)
      tail(r) == EnforceZero(StepOver(r), rd)
  IN  CASE funct5 = 2 ->   \* LR.W
             LET w == host_read_w(mem, rv.X[rs1])
             IN  Res(tail(SetX(rv, rd, w)), mem,
                     <<Ev("mem_read_w", rv.X[rs1], w)>>, TRUE)
        [] funct5 = 3 ->   \* SC.W
             LET r1 == SetX(rv, rd, 0)
             IN  Res(tail(r1), host_write_w(mem, r1.X[rs1], r1.X[rs2]),
                     <<Ev("mem_write_w", r1.X[rs1], r1.X[rs2])>>, TRUE)
        [] funct5 \in {1, 0, 4, 12, 8, 16, 20, 24, 28} ->
             \* rv->X[rd] = mem_read_w(rv, rs1); res from X[rd] and X[rs2];
             \* mem_write_s(rv, rs1, res)
             LET w   == host_read_w(mem, rs1)
                 r1  == SetX(rv, rd, w)
                 res == amo_value(funct5, r1.X[rd], r1.X[rs2])
             IN  Res(tail(r1), host_write_s(mem, rs1, res),
                     <<Ev("mem_read_w", rs1, w),
                       Ev("mem_write_s", rs1, res % 65536)>>, TRUE)
        [] OTHER -> Unreachable(rv, mem)

op_amo(rv, mem, inst, h) ==
  LET rd     == dec_rd(inst)
      rs1    == dec_rs1(inst)
      rs2    == dec_rs2(inst)
      funct5 == Bits(inst, 27, 5)
      tail(r) == EnforceZero(StepOver(r), rd)
  IN  CASE funct5 = 2 ->   \* LR.W
             LET w == host_read_w(mem, rv.X[rs1])
             IN  Res(tail(SetX(rv, rd, w)), mem,
                     <<Ev("mem_read_w", rv.X[rs1], w)>>, TRUE)
        [] funct5 = 3 ->   \* SC.W
             Res(tail(SetX(rv, rd, 0)), host_write_w(mem, rv.X[rs1], rv.X[rs2]),
                 <<Ev("mem_write_w", rv.X[rs1], rv.X[rs2])>>, TRUE)
        [] funct5 \in {1, 0, 4, 12, 8, 16, 20, 24, 28} ->
             \* rv->X[rd] = mem_read_w(rv, rs1); res from X[rd] and X[rs2];
             \* mem_write_s(rv, rs1, res)
             LET w   == host_read_w(mem, rs1)
                 r1  == SetX(rv, rd, w)
                 res == amo_value(funct5, r1.X[rd], r1.X[rs2])
             IN  Res(tail(r1), host_write_s(mem, rs1, res),
                     <<Ev("mem_read_w", rs1, w),
                       Ev("mem_write_s", rs1, res % 65536)>>, TRUE)
        [] OTHER -> Unreachable(rv, mem)

----------------------------------------------------------------------------
(* RV32F.  An F register holds the 32 bits of its float.  The results of   *)
(* the host's float arithmetic (+, -, *, /, sqrtf, fminf, fmaxf, int to    *)
(* float) are supplied by the host as h.fres; comparisons, sign injection, *)
(* classification, raw moves and float to int truncation are computed.     *)

\* faulty variant: a NaN is stored quieted (fraction bit 22 set)
SetF_quiets_nan(rv, rd, bits) ==
  [rv EXCEPT !.F[rd] = IF Bits(bits, 23, 8) = 255 /\ bits % 8388608 # 0
                       THEN Or32(bits, U32(64, 0)) ELSE bits]

\* rv->F[rd] = bits
SetF(rv, rd, bits) == [rv EXCEPT !.F[rd] = bits]

calc_fclass(f) ==
  LET sign == f < 0                         \* f & FMASK_SIGN
      expn == And32(f, FMASK_EXPN)
      frac == And32(f, FMASK_FRAC)
      bit(c, m) == IF c THEN m ELSE 0
  IN  bit(f = U32(65408, 0), 1)                                   \* 0xff800000
    + bit(expn # 0 /\ expn < U32(30720, 0) /\ sign, 2)            \* 0x78000000
    + bit(expn = 0 /\ frac # 0 /\ sign, 4)
    + bit(f = INT32_MIN, 8)
    + bit(f = 0, 16)
    + bit(expn = 0 /\ frac # 0 /\ ~sign, 32)
    + bit(expn # 0 /\ expn < U32(30720, 0) /\ ~sign, 64)
    + bit(f = U32(32640, 0), 128)                                 \* 0x7f800000
    + bit(expn = FMASK_EXPN /\ frac <= 2047 /\ frac # 0, 256)     \* 0x7ff
    + bit(expn = FMASK_EXPN /\ frac >= 2048, 512)                 \* 0x800

\* the float a bit pattern denotes
f_isnan(f) == And32(f, FMASK_EXPN) = FMASK_EXPN /\ And32(f, FMASK_FRAC) # 0
\* a key ordered like the non-NaN floats (-0 and +0 share key 0)
f_key(f) == IF f < 0 THEN 0 - Add32(f, INT32_MIN) ELSE f
f_eq(a, b) == ~f_isnan(a) /\ ~f_isnan(b) /\ f_key(a) = f_key(b)
f_lt(a, b) == ~f_isnan(a) /\ ~f_isnan(b) /\ f_key(a) < f_key(b)
f_le(a, b) == ~f_isnan(a) /\ ~f_isnan(b) /\ f_key(a) <= f_key(b)

\* the magnitude of a finite float truncated toward zero, for exponents
\* below 158 (magnitude below 2^31)
f_trunc(f) ==
  LET e == Bits(f, 23, 8)
      m == 8388608 + (f % 8388608)
  IN  IF e < 127 THEN 0
      ELSE IF e <= 150 THEN m \div Pow2(150 - e)
      ELSE m * Pow2(e - 150)

\* (int32_t)rv->F[rs1]; out of range (NaN included) is undefined: h.ub
f_to_int32(f, h) ==
  LET e == Bits(f, 23, 8)
  IN  IF e < 158 THEN (IF f < 0 THEN 0 - f_trunc(f) ELSE f_trunc(f))
      ELSE IF f = U32(52992, 0) THEN INT32_MIN        \* -2^31 = 0xCF000000
      ELSE h.ub

\* (uint32_t)rv->F[rs1]; out of range (NaN included) is undefined: h.ub
f_to_uint32(f, h) ==
  LET e == Bits(f, 23, 8)
  IN  IF e < 127 THEN 0
      ELSE IF f < 0 THEN h.ub
      ELSE IF e < 158 THEN f_trunc(f)
      ELSE IF e = 158 THEN Shl32(8388608 + (f % 8388608), 8)
      ELSE h.ub

op_load_fp(rv, mem, inst, h) ==
  LET rd   == dec_rd(inst)
      addr == Add32(rv.X[dec_rs1(inst)], dec_itype_imm(inst))
      data == host_read_w(mem, addr)
  IN  Res(StepOver(SetF(rv, rd, data)), mem, <<Ev("mem_read_w", addr, data)>>, TRUE)

op_store_fp(rv, mem, inst, h) ==
  LET addr == Add32(rv.X[dec_rs1(inst)], dec_stype_imm(inst))
      data == rv.F[dec_rs2(inst)]
  IN  Res(StepOver(rv), host_write_w(mem, addr, data),
          <<Ev("mem_write_w", addr, data)>>, TRUE)

\* the (funct7, rm, rs2) selections op_fp has a case for
op_fp_reachable(inst) ==
  LET rs2    == dec_rs2(inst)
      rm     == dec_funct3(inst)
      funct7 == dec_funct7(inst)
  IN  \/ funct7 \in {0, 4, 8, 12, 44, 120}
      \/ funct7 = 16 /\ rm \in {0, 1, 2}
      \/ funct7 = 20 /\ rm \in {0, 1}
      \/ funct7 = 96 /\ rs2 \in {0, 1}
      \/ funct7 = 112 /\ rm \in {0, 1}
      \/ funct7 = 80 /\ rm \in {0, 1, 2}
      \/ funct7 = 104 /\ rs2 \in {0, 1}

\* the hart after the switch of op_fp, before "step over instruction"
op_fp_effect(rv, inst, h) ==
  LET rd     == dec_rd(inst)
      rs1    == dec_rs1(inst)
      rs2    == dec_rs2(inst)
      rm     == dec_funct3(inst)
      funct7 == dec_funct7(inst)
      f1     == rv.F[rs1]
      f2     == rv.F[rs2]
      sgn(x) == And32(x, FMASK_SIGN)
  IN  CASE funct7 \in {0, 4, 8, 12, 44} -> SetF(rv, rd, h.fres)  \* FADD .. FSQRT
        [] funct7 = 16 ->
             SetF(rv, rd,
                  CASE rm = 0 -> Or32(And32(f1, Not32(FMASK_SIGN)), sgn(f2))
                    [] rm = 1 -> Or32(And32(f1, Not32(FMASK_SIGN)), sgn(Not32(f2)))
                    [] rm = 2 -> Xor32(f1, sgn(f2)))
        [] funct7 = 20 -> SetF(rv, rd, h.fres)                   \* FMIN, FMAX
        [] funct7 = 96 ->
             SetX(rv, rd, IF rs2 = 0 THEN f_to_int32(f1, h)      \* FCVT.W.S
                          ELSE f_to_uint32(f1, h))               \* FCVT.WU.S
        [] funct7 = 112 ->
             SetX(rv, rd, IF rm = 0 THEN f1                      \* FMV.X.W
                          ELSE calc_fclass(f1))                  \* FCLASS.S
        [] funct7 = 80 ->
             SetX(rv, rd,
                  CASE rm = 2 -> IF f_eq(f1, f2) THEN 1 ELSE 0   \* FEQ.S
                    [] rm = 1 -> IF f_lt(f1, f2) THEN 1 ELSE 0   \* FLT.S
                    [] rm = 0 -> IF f_le(f1, f2) THEN 1 ELSE 0)  \* FLE.S
        [] funct7 = 104 -> SetF(rv, rd, h.fres)                  \* FCVT.S.W[U]
        [] funct7 = 120 -> SetF(rv, rd, rv.X[rs1])               \* FMV.W.X

op_fp(rv, mem, inst, h) ==
  IF ~op_fp_reachable(inst) THEN Unreachable(rv, mem)
  ELSE Res(StepOver(op_fp_effect(rv, inst, h)), mem, <<>>, TRUE)

\* FMADD, FMSUB, FNMSUB, FNMADD
op_madd(rv, mem, inst, h)  == Res(StepOver(SetF(rv, dec_rd(inst), h.fres)), mem, <<>>, TRUE)
op_msub(rv, mem, inst, h)  == Res(StepOver(SetF(rv, dec_rd(inst), h.fres)), mem, <<>>, TRUE)
op_nmsub(rv, mem, inst, h) == Res(StepOver(SetF(rv, dec_rd(inst), h.fres)), mem, <<>>, TRUE)
op_nmadd(rv, mem, inst, h) == Res(StepOver(SetF(rv, dec_rd(inst), h.fres)), mem, <<>>, TRUE)

----------------------------------------------------------------------------
(* The dispatch table and one fetch-dispatch of the run loops *)

\* opcodes[index](rv, inst); a NULL slot fails assert(op)
Dispatch(rv, mem, inst, h) ==
  LET index == dec_index(inst)
  IN  CASE index = 0  -> op_load(rv, mem, inst, h)
        [] index = 1  -> op_load_fp(rv, mem, inst, h)
        [] index = 3  -> op_misc_mem(rv, mem, inst, h)
        [] index = 4  -> op_op_imm(rv, mem, inst, h)
        [] index = 5  -> op_auipc(rv, mem, inst, h)
        [] index = 8  -> op_store(rv, mem, inst, h)
        [] index = 9  -> op_store_fp(rv, mem, inst, h)
        [] index = 11 -> op_amo(rv, mem, inst, h)
        [] index = 12 -> op_op(rv, mem, inst, h)
        [] index = 13 -> op_lui(rv, mem, inst, h)
        [] index = 16 -> op_madd(rv, mem, inst, h)
        [] index = 17 -> op_msub(rv, mem, inst, h)
        [] index = 18 -> op_nmsub(rv, mem, inst, h)
        [] index = 19 -> op_nmadd(rv, mem, inst, h)
        [] index = 20 -> op_fp(rv, mem, inst, h)
        [] index = 24 -> op_branch(rv, mem, inst, h)
        [] index = 25 -> op_jalr(rv, mem, inst, h)
        [] index = 27 -> op_jal(rv, mem, inst, h)
        [] index = 28 -> op_system(rv, mem, inst, h)
        [] OTHER -> Unreachable(rv, mem)

\* faulty variant: the exception state is not reset
rv_reset_keeps_latch(rv, pc) ==
  [X            |-> [i \in Regs |-> IF i = rv_reg_sp THEN DEFAULT_STACK_ADDR ELSE 0],
   PC           |-> pc,
   exception    |-> IF "exception" \in DOMAIN rv THEN rv.exception ELSE rv_except_none,
   csr_cycle    |-> U64(0, 0),
   csr_mstatus  |-> 0,
   F            |-> [i \in Regs |-> 0],
   csr_fcsr     |-> 0]

\* rv_reset
rv_reset(rv, pc) ==
  [X            |-> [i \in Regs |-> IF i = rv_reg_sp THEN DEFAULT_STACK_ADDR ELSE 0],
   PC           |-> pc,
   exception    |-> rv_except_none,
   csr_cycle    |-> U64(0, 0),
   csr_mstatus  |-> 0,
   F            |-> [i \in Regs |-> 0],
   csr_fcsr     |-> 0]

----------------------------------------------------------------------------
(* Assembler: the instruction words of the programs below *)

NOP                    == EncI(19, 0, 0, 0, 0)
ADDI(rd, rs1, imm)     == EncI(19, rd, 0, rs1, imm)
LUI(rd, imm20)         == EncU(55, rd, imm20)
ADD(rd, rs1, rs2)      == EncR(51, rd, 0, rs1, rs2, 0)
\* the OP and OP-IMM major opcodes with their function fields
OP(funct7, funct3, rd, rs1, rs2) == EncR(51, rd, funct3, rs1, rs2, funct7)
OPIMM(funct3, rd, rs1, imm)      == EncI(19, rd, funct3, rs1, imm)
\* funct3: 4 DIV, 5 DIVU, 6 REM, 7 REMU
MULDIV(funct3, rd, rs1, rs2) == EncR(51, rd, funct3, rs1, rs2, 1)
\* funct3: 0 BEQ, 1 BNE, 4 BLT, 5 BGE, 6 BLTU, 7 BGEU
BRANCH(funct3, rs1, rs2, imm) == EncB(99, funct3, rs1, rs2, imm)
JAL(rd, imm)           == EncJ(111, rd, imm)
JALR(rd, rs1, imm)     == EncI(103, rd, 0, rs1, imm)
\* funct3: 0 LB, 1 LH, 2 LW, 4 LBU, 5 LHU
LOAD(funct3, rd, rs1, imm)   == EncI(3, rd, funct3, rs1, imm)
\* funct3: 0 SB, 1 SH, 2 SW
STORE(funct3, rs1, rs2, imm) == EncS(35, funct3, rs1, rs2, imm)
ECALL                  == EncI(115, 0, 0, 0, 0)
EBREAK                 == EncI(115, 0, 0, 0, 1)
\* funct3: 1 CSRRW, 2 CSRRS, 3 CSRRC; csr is the 12-bit index
CSRR(funct3, rd, csr, rs1)   == EncI(115, rd, funct3, rs1, csr)
\* funct5: 2 LR.W, 3 SC.W, 1 AMOSWAP.W, 0 AMOADD.W, ...
AMO(funct5, rd, rs1, rs2)    == EncR(47, rd, 2, rs1, rs2, funct5 * 4)
FMV_W_X(rd, rs1)       == EncR(83, rd, 0, rs1, 0, 120)
FMV_X_W(rd, rs1)       == EncR(83, rd, 0, rs1, 0, 112)
FCLASS(rd, rs1)        == EncR(83, rd, 1, rs1, 0, 112)
\* rm: 2 FEQ.S, 1 FLT.S, 0 FLE.S
FCMP(rm, rd, rs1, rs2) == EncR(83, rd, rm, rs1, rs2, 80)
FCVT_W_S(rd, rs1)      == EncR(83, rd, 0, rs1, 0, 96)
FLW(rd, rs1, imm)      == EncI(7, rd, 2, rs1, imm)
FSW(rs1, rs2, imm)     == EncS(39, 2, rs1, rs2, imm)

----------------------------------------------------------------------------
(* The state *)

VARIABLES
  rv,        \* struct riscv_t: X, F, PC, csr_cycle, csr_mstatus, csr_fcsr, exception
  mem,       \* the host's data memory
  prog,      \* the host's code, a sequence of words at ProgBase
  host,      \* what the host's callbacks decide: exc, fres, ub
  call,      \* the public operation in progress or last completed
  trace,     \* the callbacks made by the current (or last) rv_step call
  last,      \* the instruction the run loop executed last, and the hart before it
  executed   \* instructions executed since the last rv_reset

vars == <<rv, mem, prog, host, call, trace, last, executed>>

\* where the host keeps the code
ProgBase == 4 * 1024

\* mem_ifetch(pc): the word of the program at pc; NOP anywhere else
host_ifetch(code, pc) ==
  LET off == Sub32(pc, ProgBase)
  IN  IF off >= 0 /\ off % 4 = 0 /\ off \div 4 < Len(code)
      THEN code[(off \div 4) + 1] ELSE NOP

\* faulty variant: csr_cycle <= cycles_target
loop_cond_inclusive(r, target) ==
  ~ULt64(target, r.csr_cycle) /\ r.exception = rv_except_none

\* faulty variant: || for &&
loop_cond_either(r, target) ==
  ULt64(r.csr_cycle, target) \/ r.exception = rv_except_none

\* faulty variant: the latch is not looked at
loop_cond_ignores_latch(r, target) == ULt64(r.csr_cycle, target)

\* the loop condition of rv_step: rv->csr_cycle < cycles_target && !rv->exception
loop_cond(r, target) ==
  ULt64(r.csr_cycle, target) /\ r.exception = rv_except_none

\* rv->csr_cycle++
count_cycle(r) == [r EXCEPT !.csr_cycle = Inc64(r.csr_cycle)]

\* what the interpreter does with a handler's return value: true counts a
\* cycle and loops, false leaves the loop (break)
after_op(res) ==
  [rv   |-> IF res.ok /\ res.ret THEN count_cycle(res.rv) ELSE res.rv,
   mem  |-> res.mem,
   io   |-> res.io,
   ok   |-> res.ok,
   loop |-> res.ok /\ res.ret]

\* the data callbacks: the host's memory reads and writes
DataCallbacks ==
  {"mem_read_b", "mem_read_s", "mem_read_w", "mem_write_b", "mem_write_s", "mem_write_w"}

\* what a data callback may do to the hart before it returns: as the trap
\* hooks, leave it alone or latch h.exc.  No handler reads or writes the
\* latch after its data callbacks, so the latch is applied to the handler's
\* result.
host_latch(res, h) ==
  IF /\ h.exc # rv_except_none
     /\ res.ok
     /\ \E i \in DOMAIN res.io : res.io[i].cb \in DataCallbacks
  THEN [res EXCEPT !.rv.exception = h.exc]
  ELSE res

\* one iteration of the body of the while loop of rv_step (riscv.c:968-978)
interp_iter(r, m, code, h) ==
  LET inst == host_ifetch(code, r.PC)
      res  == after_op(host_latch(Dispatch(r, m, inst, h), h))
  IN  [res EXCEPT !.io = <<Ev("mem_ifetch", r.PC, inst)>> \o res.io] @@ [inst |-> inst]

\* const uint64_t cycles_target = rv->csr_cycle + cycles
cycles_target(r, cycles) == Add64s(r.csr_cycle, cycles)

NoLast == [valid |-> FALSE]

----------------------------------------------------------------------------
(* The programs and hosts the model runs *)

\* the longest run of instructions followed between two resets
MaxExec == 5

\* the cycle budgets passed to rv_step
Budgets == {0 - 1, 0, 1, 2, 3}

\* the addresses passed to rv_reset: the program's start, its second word,
\* and an address that is not 4-byte aligned
ResetPCs == {ProgBase, ProgBase + 4, ProgBase + 2}

Programs ==
  { \* an ADD-immediate chain
    <<ADDI(1, 0, 7), ADDI(2, 0, 0 - 3), ADD(3, 1, 2)>>,
    \* branches: taken to a misaligned and to an aligned target, not taken
    <<BRANCH(0, 0, 0, 6)>>,
    <<BRANCH(0, 0, 0, 8), NOP, ADDI(1, 0, 1)>>,
    <<BRANCH(1, 0, 0, 6), ADDI(1, 0, 1)>>,
    <<ADDI(1, 0, 1), BRANCH(4, 1, 0, 0 - 4), BRANCH(5, 1, 0, 0 - 2)>>,
    <<BRANCH(6, 0, 2, 10), BRANCH(7, 0, 2, 10), BRANCH(7, 2, 0, 0 - 4)>>,
    \* jumps: aligned, misaligned, to itself, through a register
    <<JAL(1, 8), NOP, ADDI(1, 1, 1)>>,
    <<JAL(0, 0)>>,
    <<ADDI(1, 0, 1), JAL(0, 6)>>,
    <<JALR(1, 2, 2)>>,
    <<JALR(1, 2, 3)>>,
    <<JAL(1, 4), JALR(1, 1, 5), ADDI(3, 1, 0)>>,
    \* the traps
    <<ECALL, ADDI(1, 0, 1)>>,
    <<ADDI(1, 0, 1), EBREAK, ADDI(1, 1, 1)>>,
    \* loads and stores
    <<ADDI(1, 0, 0 - 1), STORE(0, 0, 1, 0), LOAD(0, 3, 0, 0), LOAD(4, 0, 0, 0)>>,
    <<STORE(2, 0, 2, 4), LOAD(1, 1, 0, 6), LOAD(5, 3, 0, 6), LOAD(2, 0, 0, 4)>>,
    \* instructions that write an integer register from the F extension
    <<FMV_W_X(1, 2), FMV_X_W(0, 1), FCLASS(3, 1)>>,
    <<FCMP(2, 0, 0, 0), FCLASS(0, 0), FCVT_W_S(0, 1)>>,
    \* CSR accesses and A-extension operations with rd = x0
    <<CSRR(2, 0, CSR_CYCLE, 2), CSRR(1, 0, CSR_MSTATUS, 3), CSRR(2, 0, CSR_MSTATUS, 0)>>,
    <<STORE(2, 0, 2, 0), AMO(2, 0, 0, 0), AMO(0, 0, 0, 2), AMO(3, 0, 0, 2)>>,
    \* RV32M with the zero register as divisor and destination
    <<LUI(1, 524288), MULDIV(4, 3, 1, 0), MULDIV(6, 0, 1, 0), MULDIV(5, 0, 2, 2)>>
  }

\* a host that lets ECALL / EBREAK return, and one that latches a stop in them
Hosts ==
  { [exc |-> rv_except_none, fres |-> 0, ub |-> INT32_MIN],
    [exc |-> "host_stop",    fres |-> 0, ub |-> INT32_MIN] }

\* the programs whose run depends on the host's trap hooks
HasTrap(code) == \E i \in DOMAIN code : code[i] \in {ECALL, EBREAK}

----------------------------------------------------------------------------
(* The interpreter-only build: rv_create, rv_reset, rv_step *)

\* the hart rv_create returns: zeroed, then rv_reset(rv, 0u)
Created == rv_reset([X |-> [i \in Regs |-> 0]], 0)

\* the record of a public call: the operation, where it stands ("idle" when
\* it has returned, "abort" when an assertion stopped the process), its
\* argument n (the pc of rv_reset, the cycles of rv_step), the cycle target,
\* the hart and the memory at entry, and the pc of the last reset
Call(op, mode, n, target, pre, mem0, rpc) ==
  [op |-> op, mode |-> mode, n |-> n, target |-> target,
   pre |-> pre, mem0 |-> mem0, rpc |-> rpc]

Init ==
  /\ rv = Created
  /\ mem = [a \in MemAddrs |-> 0]
  /\ prog \in Programs
  /\ host \in Hosts
  /\ host.exc # rv_except_none => HasTrap(prog)
  /\ call = Call("create", "idle", 0, U64(0, 0), Created, [a \in MemAddrs |-> 0], 0)
  /\ trace = <<>>
  /\ last = NoLast
  /\ executed = 0

\* rv_reset(rv, pc)
Reset(pc) ==
  /\ call.mode = "idle"
  /\ rv' = rv_reset(rv, pc)
  /\ call' = Call("reset", "idle", pc, U64(0, 0), rv, mem, pc)
  /\ trace' = <<>>
  /\ last' = NoLast
  /\ executed' = 0
  /\ UNCHANGED <<mem, prog, host>>

\* rv_step(rv, cycles) is entered: the target is computed
StepCall(cycles) ==
  /\ call.mode = "idle"
  /\ call' = Call("step", "loop", cycles, cycles_target(rv, cycles), rv, mem, call.rpc)
  /\ trace' = <<>>
  /\ UNCHANGED <<rv, mem, prog, host, last, executed>>

\* the effect of one iteration on the state; the loop goes on in mode on,
\* and is left for mode off when the handler returned false
Iterate(it, on, off) ==
  /\ rv' = it.rv
  /\ mem' = it.mem
  /\ trace' = trace \o it.io
  /\ call' = [call EXCEPT !.mode = IF ~it.ok THEN "abort"
                                   ELSE IF it.loop THEN on ELSE off]
  /\ last' = [valid |-> it.ok, inst |-> it.inst, pre |-> rv]
  /\ executed' = IF it.ok THEN executed + 1 ELSE executed
  /\ UNCHANGED <<prog, host>>

\* one iteration of the while loop: fetch, dispatch, count the cycle or break
LoopIter ==
  /\ call.mode = "loop"
  /\ loop_cond(rv, call.target)
  /\ executed < MaxExec
  /\ Iterate(interp_iter(rv, mem, prog, host), "loop", "idle")

\* the loop condition fails: rv_step returns
LoopExit ==
  /\ call.mode = "loop"
  /\ ~loop_cond(rv, call.target)
  /\ call' = [call EXCEPT !.mode = "idle"]
  /\ UNCHANGED <<rv, mem, prog, host, trace, last, executed>>

Next ==
  \/ \E pc \in ResetPCs : Reset(pc)
  \/ \E cycles \in Budgets : StepCall(cycles)
  \/ LoopIter
  \/ LoopExit

Spec == Init /\ [][Next]_vars

\* rv_step as one function: the hart, memory and callbacks when it returns
\* (ok is FALSE when an assertion stopped it)
RECURSIVE interp_run(_, _, _, _, _, _)
interp_run(r, m, code, h, target, tr) ==
  IF ~loop_cond(r, target) THEN [rv |-> r, mem |-> m, trace |-> tr, ok |-> TRUE]
  ELSE CHOOSE out \in
         { IF it.ok /\ it.loop
           THEN interp_run(it.rv, it.mem, code, h, target, tr \o it.io)
           ELSE [rv |-> it.rv, mem |-> it.mem, trace |-> tr \o it.io, ok |-> it.ok] :
           it \in {interp_iter(r, m, code, h)} } : TRUE

----------------------------------------------------------------------------
(* Single instructions on chosen operands.  A program loads two values     *)
(* into x1 and x2 (LUI, ADDI each) and then holds the instruction under    *)
(* study; the behaviours start after rv_reset(ProgBase) and run the whole  *)
(* program in one call of rv_step.                                         *)

\* LUI rd, hi ; ADDI rd, rd, lo  with  v = (hi << 12) + lo
LoadImm(rd, v) ==
  LET t  == v % 4096
      lo == IF t >= 2048 THEN t - 4096 ELSE t
      up == Sub32(v, lo)
  IN  <<LUI(rd, (up \div 4096) % 1048576), ADDI(rd, rd, lo)>>

OperandProgram(a, b, inst) == LoadImm(1, a) \o LoadImm(2, b) \o <<inst>>

\* the state after rv_create and rv_reset(ProgBase), holding the program
AfterReset(code, h) ==
  /\ prog = code
  /\ host = h
  /\ rv = rv_reset(Created, ProgBase)
  /\ mem = [a \in MemAddrs |-> 0]
  /\ trace = <<>>
  /\ call = Call("reset", "idle", ProgBase, U64(0, 0), Created,
               [a \in MemAddrs |-> 0], ProgBase)
  /\ last = NoLast
  /\ executed = 0

\* the operand values of the division programs
DivOperands == {0, 1, 0 - 1, INT32_MIN, INT32_MAX, 42, 0 - 7}

\* DIV, DIVU, REM, REMU on every choice of rd in x0..x3 and rs1, rs2 in x0..x2
DivInstructions ==
  {MULDIV(f3, rd, rs1, rs2) : f3 \in 4 .. 7, rd \in 0 .. 3, rs1 \in 0 .. 2, rs2 \in 0 .. 2}

InitDiv ==
  \E a \in DivOperands, b \in DivOperands, inst \in DivInstructions :
     AfterReset(OperandProgram(a, b, inst),
                [exc |-> rv_except_none, fres |-> 0, ub |-> INT32_MIN])

\* rv_step(rv, n) with the program's length as n
StepProgram == StepCall(Len(prog))

NextOp == StepProgram \/ LoopIter \/ LoopExit

SpecDiv == InitDiv /\ [][NextOp]_vars

----------------------------------------------------------------------------
(* The build with RISCV_VM_X64_JIT: rv_step offers every pass of its outer *)
(* loop to rv_step_jit and interprets up to the next branch when that      *)
(* declines.  rv_step_jit's code is not among the sources; it is taken as  *)
(* the backend section describes it: it either declines and changes        *)
(* nothing, or runs one block, the instructions from PC up to and          *)
(* including the first one whose handler ends the straight line, each with *)
(* the effect, callbacks and cycle count the interpreter gives it.         *)

\* the block rv_step_jit runs from r.PC; fuel bounds its length, n counts
\* its instructions
RECURSIVE jit_block(_, _, _, _, _, _, _, _)
jit_block(r, m, code, h, target, tr, fuel, n) ==
  IF fuel = 0 \/ ~loop_cond(r, target)
  THEN [rv |-> r, mem |-> m, trace |-> tr, ok |-> TRUE, n |-> n]
  ELSE CHOOSE out \in
         { IF it.ok /\ it.loop
           THEN jit_block(it.rv, it.mem, code, h, target, tr \o it.io, fuel - 1, n + 1)
           ELSE [rv |-> it.rv, mem |-> it.mem, trace |-> tr \o it.io, ok |-> it.ok,
                 n |-> IF it.ok THEN n + 1 ELSE n] :
           it \in {interp_iter(r, m, code, h)} } : TRUE

\* rv_step(rv, cycles) of the JIT build is entered
StepCallJit(cycles) ==
  /\ call.mode = "idle"
  /\ call' = Call("step_jit", "outer", cycles, cycles_target(rv, cycles), rv, mem, call.rpc)
  /\ trace' = <<>>
  /\ UNCHANGED <<rv, mem, prog, host, last, executed>>

\* a pass of the outer loop: if (rv_step_jit(rv, cycles_target)) continue;
JitOffer ==
  /\ call.mode = "outer"
  /\ loop_cond(rv, call.target)
  /\ \/ \* the backend declines: on to the inner loop
        /\ call' = [call EXCEPT !.mode = "inner"]
        /\ UNCHANGED <<rv, mem, prog, host, trace, last, executed>>
     \/ \* the backend runs a block: continue
        /\ executed < MaxExec
        /\ LET b == jit_block(rv, mem, prog, host, call.target, <<>>, MaxExec - executed, 0)
           IN  /\ rv' = b.rv
               /\ mem' = b.mem
               /\ trace' = trace \o b.trace
               /\ call' = [call EXCEPT !.mode = IF b.ok THEN "outer" ELSE "abort"]
               /\ executed' = executed + b.n
        /\ last' = NoLast
        /\ UNCHANGED <<prog, host>>

\* one iteration of the inner loop; a handler returning false breaks to the
\* outer loop
JitInner ==
  /\ call.mode = "inner"
  /\ loop_cond(rv, call.target)
  /\ executed < MaxExec
  /\ Iterate(interp_iter(rv, mem, prog, host), "inner", "outer")

\* the inner loop's condition fails: back to the outer loop's condition
JitInnerLeave ==
  /\ call.mode = "inner"
  /\ ~loop_cond(rv, call.target)
  /\ call' = [call EXCEPT !.mode = "outer"]
  /\ UNCHANGED <<rv, mem, prog, host, trace, last, executed>>

\* the outer loop's condition fails: rv_step returns
JitExit ==
  /\ call.mode = "outer"
  /\ ~loop_cond(rv, call.target)
  /\ call' = [call EXCEPT !.mode = "idle"]
  /\ UNCHANGED <<rv, mem, prog, host, trace, last, executed>>

NextJit ==
  \/ \E pc \in ResetPCs : Reset(pc)
  \/ \E cycles \in Budgets : StepCallJit(cycles)
  \/ JitOffer
  \/ JitInner
  \/ JitInnerLeave
  \/ JitExit

SpecJit == Init /\ [][NextJit]_vars

----------------------------------------------------------------------------
(* The shifts on chosen operands and shift sources *)

\* values of X[rs1] to shift
ShiftOperands == {1, 0 - 1, INT32_MIN, U32(4660, 22136), 0 - 7}

\* shift sources in X[rs2]: the same low 5 bits under different high bits
ShiftSources == {0, 32, 1, 33, U32(65535, 65505), 31, 63, 0 - 1, INT32_MIN, U32(4096, 3)}

\* I-immediates of SLLI, SRLI, SRAI: the same low 5 bits under different
\* high bits
ShiftImms == {0, 1, 31, 32, 33, 63, 1024, 1025, 1055, 0 - 1, 0 - 2047, 0 - 31}

\* SLL, SRL, SRA
ShiftRegInstructions == {OP(0, 1, 3, 1, 2), OP(0, 5, 3, 1, 2), OP(32, 5, 3, 1, 2), OP(0, 1, 2, 1, 2)}

\* the OP-IMM words with funct3 1 and 5
ShiftImmInstructions == {OPIMM(f3, 3, 1, i) : f3 \in {1, 5}, i \in ShiftImms}

InitShift ==
  \E a \in ShiftOperands, b \in ShiftSources, inst \in ShiftRegInstructions \cup ShiftImmInstructions :
     /\ inst \in ShiftImmInstructions => b = 0
     /\ AfterReset(OperandProgram(a, b, inst),
                   [exc |-> rv_except_none, fres |-> 0, ub |-> INT32_MIN])

SpecShift == InitShift /\ [][NextOp]_vars

----------------------------------------------------------------------------
(* The CSR instructions: x1 is loaded with a value (x0 is 0 and x2 holds   *)
(* the reset stack address), one instruction prepares mstatus, and the CSR *)
(* instruction under study follows.                                        *)

CsrProgram(a, first, inst) == LoadImm(1, a) \o <<first, inst>>

\* values of x1
CsrOperands == {0, U32(0, 57005), 0 - 1, U32(43690, 21845)}

\* the instruction before: nothing, or a CSRRW that changes mstatus
CsrFirst == {NOP, CSRR(1, 0, CSR_MSTATUS, 31), CSRR(1, 0, CSR_MSTATUS, 1)}

\* CSRRW, CSRRS, CSRRC on the four CSRs, rd in {x0, x1, x3}, rs1 in x0..x2
CsrInstructions ==
  {CSRR(f3, rd, csr, rs1) : f3 \in 1 .. 3, rd \in {0, 1, 3}, rs1 \in 0 .. 2,
                            csr \in {CSR_CYCLE, CSR_CYCLEH, CSR_FCSR, CSR_MSTATUS}}

InitCsr ==
  \E a \in CsrOperands, first \in CsrFirst, inst \in CsrInstructions :
     AfterReset(CsrProgram(a, first, inst),
                [exc |-> rv_except_none, fres |-> 0, ub |-> INT32_MIN])

SpecCsr == InitCsr /\ [][NextOp]_vars

----------------------------------------------------------------------------
(* The F-extension moves and FCLASS.S on chosen bit patterns: x1 is loaded *)
(* with the pattern and moved to f1, then the instructions under study run *)

FpProgram(bits, tail) == LoadImm(1, bits) \o <<FMV_W_X(1, 1)>> \o tail

\* bit patterns of every class, at the edges of the classes
FpPatterns ==
  { U32(65408, 0),                                  \* -inf
    U32(49024, 0), U32(32896, 0), U32(65407, 65535),\* -1.0, least and greatest negative normal
    U32(32768, 1), U32(32895, 65535),               \* negative subnormals
    INT32_MIN, 0,                                   \* -0, +0
    1, U32(127, 65535),                             \* positive subnormals
    U32(16256, 0), U32(128, 0), U32(32639, 65535),  \* 1.0, least and greatest positive normal
    U32(30719, 65535), U32(30720, 0),               \* biased exponents 239 and 240
    U32(32640, 0),                                  \* +inf
    U32(32640, 1), U32(32640, 2047), U32(32640, 2048), U32(32672, 0), U32(32703, 65535),
                                                    \* NaNs with fraction bit 22 clear
    U32(32704, 0), U32(65472, 0), U32(65535, 65535) \* NaNs with fraction bit 22 set
  }

\* FCLASS.S x3, f1; or FMV.X.W x3, f1 and FMV.W.X f2, x3
FpTails == {<<FCLASS(3, 1)>>, <<FMV_X_W(3, 1), FMV_W_X(2, 3)>>}

InitFp ==
  \E bits \in FpPatterns, tail \in FpTails :
     AfterReset(FpProgram(bits, tail),
                [exc |-> rv_except_none, fres |-> 0, ub |-> INT32_MIN])

SpecFp == InitFp /\ [][NextOp]_vars

----------------------------------------------------------------------------
(* The AMOs: x1 is loaded with a value, x1 is stored to the word at 0 and  *)
(* x2 (the reset stack address) to the word at 4, and the AMO follows.     *)

AmoProgram(v, inst) ==
  LoadImm(1, v) \o <<STORE(2, 0, 1, 0), STORE(2, 0, 2, 4), inst>>

\* values of x1: the data address 4, a halfword value, two full words
AmoOperands == {4, U32(0, 57005), U32(4660, 22136), 0 - 1}

\* AMOSWAP, AMOADD, AMOXOR, AMOAND, AMOOR, AMOMIN, AMOMAX, AMOMINU, AMOMAXU
AmoFunct5 == {1, 0, 4, 12, 8, 16, 20, 24, 28}

\* rd in {x0, x1, x3}, rs1 in {x0, x1}, rs2 in x0..x2
AmoInstructions ==
  {AMO(f5, rd, rs1, rs2) : f5 \in AmoFunct5, rd \in {0, 1, 3}, rs1 \in {0, 1}, rs2 \in 0 .. 2}

InitAmo ==
  \E v \in AmoOperands, inst \in AmoInstructions :
     AfterReset(AmoProgram(v, inst),
                [exc |-> rv_except_none, fres |-> 0, ub |-> INT32_MIN])

SpecAmo == InitAmo /\ [][NextOp]_vars

----------------------------------------------------------------------------
(* The loads: x1 is loaded with a value and stored to the word at 0, and   *)
(* the load under study follows.                                           *)

LoadProgram(v, inst) == LoadImm(1, v) \o <<STORE(2, 0, 1, 0), inst>>

\* words whose bytes and halfwords have either sign; 4 and 0xFFFFFFFF also
\* serve as base addresses
LoadOperands == {U32(32897, 127), 0 - 1, 4, U32(255, 33023)}

\* LB, LH, LW, LBU, LHU with rd in {x0, x1, x3}, base x0 or x1
LoadInstructions ==
  {LOAD(f3, rd, rs1, imm) : f3 \in {0, 1, 2, 4, 5}, rd \in {0, 1, 3}, rs1 \in {0, 1},
                            imm \in {0 - 4, 0, 1, 2, 3}}

InitLoad ==
  \E v \in LoadOperands, inst \in LoadInstructions :
     AfterReset(LoadProgram(v, inst),
                [exc |-> rv_except_none, fres |-> 0, ub |-> INT32_MIN])

SpecLoad == InitLoad /\ [][NextOp]_vars

----------------------------------------------------------------------------
(* The jumps: x1 is loaded with a value and the jump under study follows   *)
(* at ProgBase + 8.                                                        *)

JumpProgram(v, inst) == LoadImm(1, v) \o <<inst>>

\* values of x1: aligned and misaligned addresses, odd values, 0xFFFFFFFF
JumpOperands == {ProgBase + 16, ProgBase + 2, ProgBase + 1, 3, 0 - 1}

\* JALR with rd in {x0, x1, x3} and rs1 in x0..x2 (rd = rs1 included), JAL
\* with rd in {x0, x1}, forward, backward and misaligned
JumpInstructions ==
  {JALR(rd, rs1, imm) : rd \in {0, 1, 3}, rs1 \in 0 .. 2, imm \in {0 - 4, 0, 1, 2, 5, 2047}}
  \cup {JAL(rd, imm) : rd \in {0, 1}, imm \in {0 - 8, 0 - 6, 0, 2, 16, 1048574}}

InitJump ==
  \E v \in JumpOperands, inst \in JumpInstructions :
     AfterReset(JumpProgram(v, inst),
                [exc |-> rv_except_none, fres |-> 0, ub |-> INT32_MIN])

SpecJump == InitJump /\ [][NextOp]_vars

----------------------------------------------------------------------------
(* Cancellation by the host: programs of three instructions whose second   *)
(* makes a host callback, run by a host that returns from its callbacks    *)
(* and by one that latches a stop in them.                                 *)

CancelProgram(inst) == <<ADDI(1, 0, 4), inst, ADDI(3, 0, 1)>>

\* the traps, every load and store, LR.W, SC.W, AMOs, FLW, FSW, and an
\* instruction without a callback
CancelInstructions ==
  {ECALL, EBREAK, NOP, FLW(1, 0, 0), FSW(0, 1, 4), AMO(2, 3, 0, 1), AMO(3, 3, 0, 1),
   AMO(1, 3, 0, 1), AMO(0, 0, 1, 1)}
  \cup {LOAD(f3, 3, 1, 0 - 4) : f3 \in {0, 1, 2, 4, 5}}
  \cup {STORE(f3, 0, 1, 0) : f3 \in {0, 1, 2}}

InitCancel ==
  \E inst \in CancelInstructions, h \in Hosts :
     AfterReset(CancelProgram(inst), h)

SpecCancel == InitCancel /\ [][NextOp]_vars

----------------------------------------------------------------------------
(* The traps: ECALL or EBREAK after a prefix that leaves the integer       *)
(* registers in different states, followed by one more instruction.        *)

TrapProgram(prefix, inst) == prefix \o <<inst, ADDI(3, 0, 1)>>

\* nothing, plain register writes, and FMV.X.W with rd = x0, which op_fp
\* lets through to X[0]
TrapPrefixes ==
  {<<>>, <<ADDI(1, 0, 5)>>, <<ADDI(1, 0, 0 - 1), ADDI(2, 1, 3)>>,
   <<ADDI(1, 0, 5), FMV_W_X(1, 1), FMV_X_W(0, 1)>>,
   <<FMV_W_X(1, 2), FMV_X_W(0, 1)>>,
   <<FCMP(2, 0, 0, 0)>>}

InitTrap ==
  \E prefix \in TrapPrefixes, inst \in {ECALL, EBREAK}, h \in Hosts :
     AfterReset(TrapProgram(prefix, inst), h)

SpecTrap == InitTrap /\ [][NextOp]_vars

----------------------------------------------------------------------------
(* Termination of rv_step.  The callbacks of a call are not recorded here  *)
(* and the count of executed instructions stops at MaxExec, so that a run  *)
(* loop that goes round without end is a cycle of states.  Every callback  *)
(* returns: an iteration that is enabled is taken.                         *)

\* straight lines, traps, and loops made of control transfers only
LivePrograms ==
  {<<JAL(0, 0)>>,
   <<BRANCH(0, 0, 0, 0)>>,
   <<ADDI(1, 0, 1), ADDI(1, 1, 1), ADDI(1, 1, 1)>>,
   <<ADDI(1, 1, 1), JAL(0, 0 - 4)>>,
   <<ECALL, JAL(0, 0 - 4)>>}

\* the cycle budgets n >= 0
LiveBudgets == {0, 1, 3}

InitLive ==
  \E code \in LivePrograms, h \in Hosts :
     /\ h.exc # rv_except_none => HasTrap(code)
     /\ AfterReset(code, h)

\* instructions executed, up to MaxExec
CountExecuted(n) == IF executed + n < MaxExec THEN executed + n ELSE MaxExec

\* the effect of one iteration, callbacks not recorded
IterateLive(it, on, off) ==
  /\ rv' = it.rv
  /\ mem' = it.mem
  /\ call' = [call EXCEPT !.mode = IF ~it.ok THEN "abort"
                                   ELSE IF it.loop THEN on ELSE off]
  /\ last' = [valid |-> it.ok, inst |-> it.inst, pre |-> rv]
  /\ executed' = CountExecuted(1)
  /\ UNCHANGED <<prog, host, trace>>

\* rv_step(rv, cycles), interpreter-only build
StepCallLive ==
  \E cycles \in LiveBudgets :
     /\ executed + cycles <= MaxExec
     /\ StepCall(cycles)

LoopIterLive ==
  /\ call.mode = "loop"
  /\ loop_cond(rv, call.target)
  /\ IterateLive(interp_iter(rv, mem, prog, host), "loop", "idle")

NextLive == StepCallLive \/ LoopIterLive \/ LoopExit

SpecLive ==
  InitLive /\ [][NextLive]_vars /\ WF_vars(LoopIterLive) /\ WF_vars(LoopExit)

\* rv_step(rv, cycles), build with RISCV_VM_X64_JIT
StepCallJitLive ==
  \E cycles \in LiveBudgets :
     /\ executed + cycles <= MaxExec
     /\ StepCallJit(cycles)

\* rv_step_jit declines
JitDeclineLive ==
  /\ call.mode = "outer"
  /\ loop_cond(rv, call.target)
  /\ call' = [call EXCEPT !.mode = "inner"]
  /\ UNCHANGED <<rv, mem, prog, host, trace, last, executed>>

\* rv_step_jit runs a block
JitBlockLive ==
  /\ call.mode = "outer"
  /\ loop_cond(rv, call.target)
  /\ LET b == jit_block(rv, mem, prog, host, call.target, <<>>, MaxExec, 0)
     IN  /\ rv' = b.rv
         /\ mem' = b.mem
         /\ call' = [call EXCEPT !.mode = IF b.ok THEN "outer" ELSE "abort"]
         /\ executed' = CountExecuted(b.n)
  /\ last' = NoLast
  /\ UNCHANGED <<prog, host, trace>>

JitInnerLive ==
  /\ call.mode = "inner"
  /\ loop_cond(rv, call.target)
  /\ IterateLive(interp_iter(rv, mem, prog, host), "inner", "outer")

NextJitLive ==
  \/ StepCallJitLive
  \/ JitDeclineLive
  \/ JitBlockLive
  \/ JitInnerLive
  \/ JitInnerLeave
  \/ JitExit

\* a pass of the outer loop that is enabled is taken, by the backend or by
\* the inner loop
SpecJitLive ==
  /\ InitLive
  /\ [][NextJitLive]_vars
  /\ WF_vars(JitDeclineLive \/ JitBlockLive)
  /\ WF_vars(JitInnerLive)
  /\ WF_vars(JitInnerLeave)
  /\ WF_vars(JitExit)

----------------------------------------------------------------------------
(* Instruction words whose sub-opcode fields select nothing the core       *)
(* supports, next to supported ones, as the second of three instructions.  *)

SelectorProgram(inst) == <<ADDI(1, 0, 4), inst, ADDI(3, 0, 1)>>

\* words with an unsupported funct3, funct7 or immediate selector
UnsupportedWords ==
  {EncI(7, 1, 3, 0, 0), EncI(7, 1, 0, 0, 0), EncI(7, 1, 1, 1, 0),     \* LOAD-FP, width not 32
   EncS(39, 3, 0, 1, 0), EncS(39, 0, 1, 1, 0),                        \* STORE-FP, width not 32
   OP(2, 0, 3, 1, 1), OP(32, 1, 3, 1, 1), OP(64, 0, 3, 1, 1),         \* OP
   LOAD(3, 3, 0, 0), LOAD(6, 3, 0, 0), LOAD(7, 3, 0, 0),              \* LOAD
   STORE(3, 0, 1, 0), STORE(7, 0, 1, 0),                              \* STORE
   BRANCH(2, 0, 0, 8), BRANCH(3, 0, 1, 8),                            \* BRANCH
   EncI(115, 0, 4, 0, 0), EncI(115, 0, 0, 0, 2)}                      \* SYSTEM

\* words the core supports, from the same groups
SupportedWords ==
  {FLW(1, 0, 0), FSW(0, 1, 0), OP(0, 0, 3, 1, 1), OP(32, 0, 3, 1, 1), OP(32, 5, 3, 1, 1),
   OPIMM(1, 3, 1, 2), OPIMM(5, 3, 1, 1024 + 2), LOAD(2, 3, 0, 0), STORE(2, 0, 1, 0)}

InitSelector ==
  \E inst \in UnsupportedWords \cup SupportedWords :
     AfterReset(SelectorProgram(inst),
                [exc |-> rv_except_none, fres |-> 0, ub |-> INT32_MIN])

SpecSelector == InitSelector /\ [][NextOp]_vars

----------------------------------------------------------------------------
(* The register CSR instructions on indices csr_get_ptr does not know *)

\* fflags, frm, mscratch - 0x3f, misa, time, instret, the last index, 0
UnknownCsrs == {1, 2, 769, 3073, 3074, 4095, 0}

\* CSRRW, CSRRS, CSRRC on an unknown index, rd in x0..x3, rs1 in {x0, x1}
UnknownCsrInstructions ==
  {CSRR(f3, rd, csr, rs1) : f3 \in 1 .. 3, rd \in 0 .. 3, rs1 \in 0 .. 1,
                            csr \in UnknownCsrs}

\* x1 is non-zero, and mstatus is where a CSRRW before has set it
InitCsrUnknown ==
  \E a \in {0 - 1, U32(0, 57005)}, first \in CsrFirst, inst \in UnknownCsrInstructions :
     AfterReset(CsrProgram(a, first, inst),
                [exc |-> rv_except_none, fres |-> 0, ub |-> INT32_MIN])

SpecCsrUnknown == InitCsrUnknown /\ [][NextOp]_vars

----------------------------------------------------------------------------
(* The immediate CSR instructions, after prefixes that leave mstatus and   *)
(* the integer registers in different states                               *)

CsrImmProgram(prefix, inst) == prefix \o <<inst>>

\* x1 set; mstatus set by a CSRRW; X[0] written by FEQ.S and by FMV.X.W
CsrImmPrefixes ==
  {<<ADDI(1, 0, 5)>>,
   <<ADDI(1, 0, 5), CSRR(1, 0, CSR_MSTATUS, 31)>>,
   <<FCMP(2, 0, 0, 0)>>,
   <<ADDI(1, 0, 5), FMV_W_X(1, 1), FMV_X_W(0, 1)>>}

\* CSRRWI, CSRRSI, CSRRCI on the known CSRs and an unknown one, rd in
\* x0..x2, with the immediates 0, 1 and 31
CsrImmInstructions ==
  {CSRR(f3, rd, csr, uimm) : f3 \in 5 .. 7, rd \in 0 .. 2, uimm \in {0, 1, 31},
                             csr \in {CSR_CYCLE, CSR_CYCLEH, CSR_FCSR, CSR_MSTATUS, 3073}}

InitCsrImm ==
  \E prefix \in CsrImmPrefixes, inst \in CsrImmInstructions :
     AfterReset(CsrImmProgram(prefix, inst),
                [exc |-> rv_except_none, fres |-> 0, ub |-> INT32_MIN])

SpecCsrImm == InitCsrImm /\ [][NextOp]_vars

----------------------------------------------------------------------------
(* fcsr: a floating-point operation followed by a CSR instruction on fcsr, *)
(* run by any sequence of rv_reset and rv_step calls                       *)

FcsrProgram(fp, inst) == <<ADDI(1, 0, 5), fp, inst>>

\* FADD.S, FDIV.S by +0, FSQRT.S, FCVT.W.S, FLE.S, FLW
FcsrFpInstructions ==
  {EncR(83, 1, 0, 1, 1, 0), EncR(83, 1, 0, 1, 0, 12), EncR(83, 2, 0, 1, 0, 44),
   FCVT_W_S(3, 1), FCMP(0, 3, 0, 1), FLW(1, 0, 0)}

\* CSRRW, CSRRS, CSRRC on fcsr, rd in {x0, x3}, rs1 in {x1, x2}
FcsrCsrInstructions ==
  {CSRR(f3, rd, CSR_FCSR, rs1) : f3 \in 1 .. 3, rd \in {0, 3}, rs1 \in 1 .. 2}

InitFcsr ==
  /\ rv = Created
  /\ mem = [a \in MemAddrs |-> 0]
  /\ \E fp \in FcsrFpInstructions, inst \in FcsrCsrInstructions :
        prog = FcsrProgram(fp, inst)
  /\ host = [exc |-> rv_except_none, fres |-> 0, ub |-> INT32_MIN]
  /\ call = Call("create", "idle", 0, U64(0, 0), Created, [a \in MemAddrs |-> 0], 0)
  /\ trace = <<>>
  /\ last = NoLast
  /\ executed = 0

SpecFcsr == InitFcsr /\ [][Next]_vars

----------------------------------------------------------------------------
(* LR.W and SC.W: x1 is loaded and stored at address 0, one instruction    *)
(* runs in between, then the LR.W or SC.W under study.                     *)

LrScProgram(v, mid, inst) == LoadImm(1, v) \o <<STORE(2, 0, 1, 0), mid, inst>>

\* values of x1: the data address 4, an address outside the data memory,
\* a full word
LrScOperands == {4, U32(0, 57005), U32(4660, 22136)}

\* in between: nothing, LR.W on address 0, LR.W on X[1], a store
LrScBetween == {NOP, AMO(2, 3, 0, 0), AMO(2, 3, 1, 0), STORE(2, 0, 2, 4)}

\* LR.W and SC.W with rd in x0..x3, rs1 in {x0, x1}, rs2 in x0..x2
LrScInstructions ==
  {AMO(2, rd, rs1, 0) : rd \in 0 .. 3, rs1 \in 0 .. 1}
  \cup {AMO(3, rd, rs1, rs2) : rd \in 0 .. 3, rs1 \in 0 .. 1, rs2 \in 0 .. 2}

InitLrSc ==
  \E v \in LrScOperands, mid \in LrScBetween, inst \in LrScInstructions :
     AfterReset(LrScProgram(v, mid, inst),
                [exc |-> rv_except_none, fres |-> 0, ub |-> INT32_MIN])

SpecLrSc == InitLrSc /\ [][NextOp]_vars

----------------------------------------------------------------------------
(* The multiplications on chosen operands *)

\* zero, one, all ones, the extremes, a power of two, a full word, small
\* values of both signs
MulOperands ==
  {0, 1, 0 - 1, INT32_MIN, INT32_MAX, U32(1, 0), U32(4660, 22136), 0 - 7, 3}

\* MUL, MULH, MULHSU, MULHU with rd in {x0, x1, x3} and rs1, rs2 in {x1, x2}
MulInstructions ==
  {MULDIV(f3, rd, rs1, rs2) : f3 \in 0 .. 3, rd \in {0, 1, 3}, rs1 \in 1 .. 2, rs2 \in 1 .. 2}

InitMul ==
  \E a \in MulOperands, b \in MulOperands, inst \in MulInstructions :
     AfterReset(OperandProgram(a, b, inst),
                [exc |-> rv_except_none, fres |-> 0, ub |-> INT32_MIN])

SpecMul == InitMul /\ [][NextOp]_vars

----------------------------------------------------------------------------
(* Notions the properties share *)

\* rv_step has returned
Returned == call.op = "step" /\ call.mode = "idle"

\* the mem_ifetch callbacks of the current call
Fetches == {i \in DOMAIN trace : trace[i].cb = "mem_ifetch"}

\* csr_cycle as a number, while it is below 2^31
Cycles(r) == r.csr_cycle.lo

----------------------------------------------------------------------------
(* Properties *)

\* C1: whenever rv_step has returned, X[0] is zero: no instruction that
\* writes an integer destination register leaves a value in X[0].
C1_ZeroRegisterAfterStep == Returned => rv.X[rv_reg_zero] = 0

\* C2: after any sequence of rv_step calls since the last reset, csr_cycle
\* equals the number of instructions executed, whatever their control flow.
C2_CycleCountsEveryInstruction ==
  call.mode = "idle" => rv.csr_cycle = U64(0, executed)

\* C3: when rv_step(n) returns (n >= 0), the exception latch is set or
\* csr_cycle has reached its value at entry plus n.
C3_ReturnsOnLatchOrBudget ==
  (Returned /\ call.n >= 0) =>
     \/ rv.exception # rv_except_none
     \/ rv.csr_cycle = Add64s(call.pre.csr_cycle, call.n)

\* C4: rv_reset(p), from whatever state, leaves PC = p, every X[i] zero but
\* X[sp], which holds the default stack top, csr_cycle = 0, mstatus = 0 and
\* no exception.
C4_ResetState ==
  call.op = "reset" =>
     /\ rv.PC = call.n
     /\ \A i \in Regs \ {rv_reg_sp} : rv.X[i] = 0
     /\ rv.X[rv_reg_sp] = DEFAULT_STACK_ADDR
     /\ rv.csr_cycle = U64(0, 0)
     /\ rv.csr_mstatus = 0
     /\ rv.exception = rv_except_none

\* a reset of a hart with the latch set, a non-zero register, a non-zero
\* cycle count and a non-zero mstatus or a stack pointer that was overwritten
C4_Witness ==
  /\ call.op = "reset"
  /\ call.pre.exception # rv_except_none
  /\ call.pre.X[1] # 0
  /\ call.pre.csr_cycle # U64(0, 0)
  /\ rv.PC = ProgBase + 4


\* the control transfer an instruction makes from the hart pre, if any:
\* a taken branch, a JAL or a JALR, with its target
Transfer(pre, inst) ==
  LET a    == pre.X[dec_rs1(inst)]
      b    == pre.X[dec_rs2(inst)]
      f3   == dec_funct3(inst)
      less == IF a < 0 /\ b >= 0 THEN f3 \in {4, 5}       \* only as signed
              ELSE IF a >= 0 /\ b < 0 THEN f3 \in {6, 7}  \* only as unsigned
              ELSE a < b
      cond == CASE f3 = 0 -> a = b
                [] f3 = 1 -> a # b
                [] f3 \in {4, 6} -> less
                [] f3 \in {5, 7} -> ~less
                [] OTHER -> FALSE
      jalr == Add32(a, dec_itype_imm(inst))
  IN  CASE dec_index(inst) = 24 ->
             [taken |-> cond, target |-> Add32(pre.PC, dec_btype_imm(inst))]
        [] dec_index(inst) = 27 ->
             [taken |-> TRUE, target |-> Add32(pre.PC, dec_jtype_imm(inst))]
        [] dec_index(inst) = 25 ->
             [taken |-> TRUE, target |-> jalr - (jalr % 2)]
        [] OTHER -> [taken |-> FALSE, target |-> 0]

\* C6: the core latches instruction-misaligned exactly when the instruction
\* it executed is a taken branch, a JAL or a JALR whose target has a
\* non-zero bit 1 or bit 0, and PC then holds that target; a branch that is
\* not taken and every other instruction leave the latch alone.
C6_MisalignedIffTransfer ==
  last.valid =>
     LET t == Transfer(last.pre, last.inst)
         misaligned == t.taken /\ t.target % 4 # 0
     IN  /\ (rv.exception = rv_except_inst_misaligned) <=> misaligned
         /\ misaligned => rv.PC = t.target
         /\ ~misaligned /\ ~HasTrap(<<last.inst>>) => rv.exception = rv_except_none

\* a taken branch to a misaligned target has raised
C6_Witness ==
  /\ last.valid
  /\ dec_index(last.inst) = 24
  /\ rv.exception = rv_except_inst_misaligned
  /\ rv.PC = ProgBase + 6

\* C7: after a reset to a 4-byte-aligned pc, every mem_ifetch the run loop
\* makes is for a 4-byte-aligned PC.
C7_FetchAligned ==
  call.rpc % 4 = 0 => \A i \in Fetches : trace[i].addr % 4 = 0

\* rv_step was called with a positive budget on a hart whose PC is
\* misaligned and whose latch is set, and returned without a fetch
C7_Witness ==
  /\ Returned
  /\ call.rpc % 4 = 0
  /\ call.n > 0
  /\ rv.PC % 4 # 0
  /\ call.pre.exception = rv_except_inst_misaligned
  /\ trace = <<>>

\* the fetches of the current call are at consecutive words from the PC at
\* entry and PC is now past the last of them: no instruction transferred
Sequential ==
  /\ \A i \in DOMAIN trace : trace[i].cb = "mem_ifetch" =>
        trace[i].addr = Add32(call.pre.PC, 4 * Cardinality({j \in Fetches : j < i}))
  /\ rv.PC = Add32(call.pre.PC, 4 * Cardinality(Fetches))

\* C8: when no branch is taken (and nothing stops the hart), rv_step(n)
\* retires exactly n instructions: csr_cycle has increased by n and PC has
\* advanced by 4 n.
C8_StraightLineRetiresN ==
  (/\ Returned
   /\ call.n >= 0
   /\ call.pre.exception = rv_except_none
   /\ rv.exception = rv_except_none
   /\ Sequential)
  => /\ Cardinality(Fetches) = call.n
     /\ rv.csr_cycle = Add64s(call.pre.csr_cycle, call.n)
     /\ rv.PC = Add32(call.pre.PC, 4 * call.n)

\* C9: rv_step(n), n >= 0, fetches at most n instructions, and rv_step(0)
\* makes no callback and leaves the hart as it was.
C9_AtMostNFetches ==
  (call.op = "step" /\ call.n >= 0) =>
     /\ Cardinality(Fetches) <= call.n
     /\ call.n = 0 => (trace = <<>> /\ rv = call.pre /\ mem = call.mem0)

\* rv_step(0) has returned on a hart that can run (no exception latched)
\* and has executed instructions before
C9_Witness ==
  /\ Returned
  /\ call.n = 0
  /\ executed > 0
  /\ rv.exception = rv_except_none


\* the instruction executed last is DIV (4), DIVU (5), REM (6) or REMU (7)
IsDivRem(inst) ==
  dec_index(inst) = 12 /\ dec_funct7(inst) = 1 /\ dec_funct3(inst) \in 4 .. 7

\* C10: DIV, DIVU, REM and REMU never raise and never stop the hart; by
\* zero, DIV and DIVU give 0xFFFFFFFF and REM and REMU give the dividend;
\* 0x80000000 by 0xFFFFFFFF gives 0x80000000 for DIV and 0 for REM; for
\* every rd, rs1, rs2 (rd = x0 stays zero).
C10_DivRemEdgeCases ==
  /\ call.mode # "abort"
  /\ (last.valid /\ IsDivRem(last.inst)) =>
       LET f3 == dec_funct3(last.inst)
           rd == dec_rd(last.inst)
           a  == last.pre.X[dec_rs1(last.inst)]
           b  == last.pre.X[dec_rs2(last.inst)]
           v  == rv.X[rd]
       IN  /\ rv.exception = rv_except_none
           /\ rd = 0 => v = 0
           /\ (rd # 0 /\ b = 0) =>
                 v = (IF f3 \in {4, 5} THEN U32(65535, 65535) ELSE a)
           /\ (rd # 0 /\ a = U32(32768, 0) /\ b = U32(65535, 65535)) =>
                 v = (CASE f3 = 4 -> U32(32768, 0)
                        [] f3 = 6 -> 0
                        [] f3 = 5 -> 0
                        [] f3 = 7 -> a)

\* DIV of 0x80000000 by 0xFFFFFFFF with the dividend's register as rd
C10_Witness ==
  /\ last.valid
  /\ last.inst = MULDIV(4, 1, 1, 2)
  /\ last.pre.X[1] = U32(32768, 0)
  /\ last.pre.X[2] = U32(65535, 65535)
  /\ rv.X[1] = U32(32768, 0)

\* REM by zero with the divisor's register as rd
C10_WitnessRemZero ==
  /\ last.valid
  /\ last.inst = MULDIV(6, 2, 1, 2)
  /\ last.pre.X[1] = 42
  /\ last.pre.X[2] = 0
  /\ rv.X[2] = 42


\* rv_step(n) of the JIT build has returned
ReturnedJit == call.op = "step_jit" /\ call.mode = "idle"

\* C5: rv_step(n) of the JIT build, the backend running blocks or
\* declining them, returns with the register file, PC, csr_cycle,
\* exception latch and callback sequence that the interpreter-only
\* rv_step(n) gives from the same hart, memory and program.
C5_JitMatchesInterpreter ==
  (ReturnedJit /\ call.n >= 0) =>
     LET ref == interp_run(call.pre, call.mem0, prog, host, call.target, <<>>)
     IN  /\ ref.ok
         /\ rv.X = ref.rv.X
         /\ rv.PC = ref.rv.PC
         /\ rv.csr_cycle = ref.rv.csr_cycle
         /\ rv.exception = ref.rv.exception
         /\ trace = ref.trace

\* a JIT-build call over straight-line code, which does agree
C5_Witness ==
  /\ ReturnedJit
  /\ call.n = 2
  /\ call.pre.PC = ProgBase
  /\ prog[1] = ADDI(1, 0, 7)
  /\ rv.csr_cycle = U64(0, 2)
  /\ rv.X[2] = U32(65535, 65533)

\* the instruction is SLL, SRL or SRA
IsShiftReg(inst) ==
  /\ dec_index(inst) = 12
  /\ \/ dec_funct7(inst) = 0 /\ dec_funct3(inst) \in {1, 5}
     \/ dec_funct7(inst) = 32 /\ dec_funct3(inst) = 5

\* the instruction is SLLI, SRLI or SRAI
IsShiftImm(inst) == dec_index(inst) = 4 /\ dec_funct3(inst) \in {1, 5}

\* two OP-IMM shift words are of the same form: both SLLI, both SRLI or both
\* SRAI, SRAI being the words of funct3 5 with a bit outside the low 5 of
\* the immediate set
SameShiftForm(i1, i2) ==
  /\ dec_funct3(i1) = dec_funct3(i2)
  /\ dec_funct3(i1) = 5 =>
       ((dec_itype_imm(i1) % 32 # dec_itype_imm(i1)) <=>
        (dec_itype_imm(i2) % 32 # dec_itype_imm(i2)))

\* C11: a shift's result depends on its shift source only through the low
\* 5 bits: executing the same form on the same X[rs1] with any other shift
\* source of the same low 5 bits writes the value this execution wrote.
C11_ShiftLowFiveBits ==
  /\ (last.valid /\ IsShiftReg(last.inst) /\ dec_rs1(last.inst) # dec_rs2(last.inst)) =>
       \A s \in ShiftSources :
          s % 32 = last.pre.X[dec_rs2(last.inst)] % 32 =>
             op_op(SetX(last.pre, dec_rs2(last.inst), s), mem, last.inst, host).rv.X[dec_rd(last.inst)]
               = rv.X[dec_rd(last.inst)]
  /\ (last.valid /\ IsShiftImm(last.inst)) =>
       \A i \in ShiftImms :
          LET other == OPIMM(dec_funct3(last.inst), dec_rd(last.inst), dec_rs1(last.inst), i)
          IN  (i % 32 = dec_itype_imm(last.inst) % 32 /\ SameShiftForm(other, last.inst)) =>
                 op_op_imm(last.pre, mem, other, host).rv.X[dec_rd(last.inst)]
                   = rv.X[dec_rd(last.inst)]

\* SRA of 0x80000000 by a source of 0xFFFFFFE1: one place
C11_Witness ==
  /\ last.valid
  /\ last.inst = OP(32, 5, 3, 1, 2)
  /\ last.pre.X[1] = INT32_MIN
  /\ last.pre.X[2] = U32(65535, 65505)
  /\ rv.X[3] = U32(49152, 0)

\* the instruction is CSRRW (1), CSRRS (2) or CSRRC (3)
IsCsrOp(inst) == dec_index(inst) = 28 /\ dec_funct3(inst) \in 1 .. 3

\* the instruction under study of a CSR program has just executed
CsrStudied == last.valid /\ IsCsrOp(last.inst) /\ executed = Len(prog)

\* C12: CSRRW, CSRRS and CSRRC on cycle, cycleh or fcsr write the CSR's
\* prior value to X[rd] (X[0] stays 0) and write nothing to the CSR,
\* whatever the source operand: afterwards csr_cycle holds only the run
\* loop's count of the instruction, and fcsr and mstatus are as before.
C12_ReadOnlyCsr ==
  (CsrStudied /\ dec_csr(last.inst) \in {CSR_CYCLE, CSR_CYCLEH, CSR_FCSR}) =>
     /\ rv.X[dec_rd(last.inst)] =
          (IF dec_rd(last.inst) = 0 THEN 0 ELSE csr_get(last.pre, dec_csr(last.inst)))
     /\ rv.csr_cycle = Inc64(last.pre.csr_cycle)
     /\ rv.csr_fcsr = last.pre.csr_fcsr
     /\ rv.csr_mstatus = last.pre.csr_mstatus

\* CSRRW x3, cycle, x1 with X[1] = 0xDEAD after three counted instructions
C12_Witness ==
  /\ CsrStudied
  /\ last.inst = CSRR(1, 3, CSR_CYCLE, 1)
  /\ last.pre.X[1] = U32(0, 57005)
  /\ rv.X[3] = 3
  /\ rv.csr_cycle = U64(0, 4)

\* C19: CSRRW, CSRRS and CSRRC on mstatus write the old mstatus to X[rd]
\* (X[0] stays 0) and update mstatus from the value of register X[rs1]:
\* X[rs1] for CSRRW, old | X[rs1] for CSRRS, old & ~X[rs1] for CSRRC.
C19_MstatusFromRegisterValue ==
  (CsrStudied /\ dec_csr(last.inst) = CSR_MSTATUS) =>
     LET old == last.pre.csr_mstatus
         src == last.pre.X[dec_rs1(last.inst)]
         f3  == dec_funct3(last.inst)
     IN  /\ rv.X[dec_rd(last.inst)] = (IF dec_rd(last.inst) = 0 THEN 0 ELSE old)
         /\ rv.csr_mstatus = (CASE f3 = 1 -> src
                                [] f3 = 2 -> Or32(old, src)
                                [] f3 = 3 -> And32(old, Not32(src)))

\* a CSR instruction on mstatus whose source register holds its own index:
\* here the update is the stated one
C19_Witness ==
  /\ CsrStudied
  /\ last.inst = CSRR(2, 3, CSR_MSTATUS, 0)
  /\ last.pre.csr_mstatus = 31
  /\ rv.X[3] = 31
  /\ rv.csr_mstatus = 31

\* the mask of the IEEE-754 class of a single-precision bit pattern: bit 0
\* -inf, 1 negative normal, 2 negative subnormal, 3 -0, 4 +0, 5 positive
\* subnormal, 6 positive normal, 7 +inf, 8 signaling NaN, 9 quiet NaN
ClassMask(f) ==
  LET e    == Bits(f, 23, 8)
      frac == f % 8388608
      neg  == f < 0
  IN  IF e = 255
      THEN IF frac = 0 THEN (IF neg THEN 1 ELSE 128)
           ELSE IF frac >= 4194304 THEN 512 ELSE 256
      ELSE IF e = 0
      THEN IF frac = 0 THEN (IF neg THEN 8 ELSE 16)
           ELSE (IF neg THEN 4 ELSE 32)
      ELSE (IF neg THEN 2 ELSE 64)

\* FCLASS.S x3, f1 has just executed on the pattern the program loaded
FclassDone ==
  last.valid /\ last.inst = FCLASS(3, 1) /\ last.pre.F[1] = last.pre.X[1]

\* C13: FCLASS.S writes the one-bit mask of the pattern's IEEE-754 class,
\* for every pattern: normals are the biased exponents 1..254, and a NaN
\* is quiet exactly when bit 22 of its fraction is set.
C13_FclassOneBitOfClass ==
  FclassDone => rv.X[3] = ClassMask(last.pre.F[1])

\* FCLASS.S of 1.0 gives bit 6
C13_Witness ==
  /\ FclassDone
  /\ last.pre.F[1] = U32(16256, 0)
  /\ rv.X[3] = 64

\* C14: FMV.W.X then FMV.X.W gives back the integer register's pattern, and
\* FMV.X.W then FMV.W.X gives back the float register's pattern, bit for
\* bit, for every pattern.
C14_FmvRoundTrip ==
  /\ (last.valid /\ last.inst = FMV_X_W(3, 1) /\ executed = 4) =>
        rv.X[3] = rv.X[1] /\ rv.F[1] = rv.X[1]
  /\ (last.valid /\ last.inst = FMV_W_X(2, 3) /\ executed = 5) =>
        rv.F[2] = rv.F[1] /\ rv.F[2] = rv.X[1]

\* a signaling NaN with a payload has gone to f1, back to x3 and on to f2
C14_Witness ==
  /\ last.valid
  /\ last.inst = FMV_W_X(2, 3)
  /\ executed = 5
  /\ rv.X[1] = U32(32640, 2047)
  /\ rv.X[3] = U32(32640, 2047)
  /\ rv.F[2] = U32(32640, 2047)

\* the AMO of an AMO program has just executed
AmoDone ==
  /\ last.valid
  /\ dec_index(last.inst) = 11
  /\ Bits(last.inst, 27, 5) \in AmoFunct5
  /\ executed = Len(prog)
  /\ Len(trace) >= 3

\* the two callbacks the AMO made after its fetch
AmoRead  == trace[Len(trace) - 1]
AmoWrite == trace[Len(trace)]

\* C15: an AMO reads the word at X[rs1] through mem_read_w and writes the
\* new value, all 32 bits of it, to the same address X[rs1] through
\* mem_write_w.
C15_AmoWordAtRs1 ==
  AmoDone =>
     /\ AmoRead.cb = "mem_read_w"
     /\ AmoRead.addr = last.pre.X[dec_rs1(last.inst)]
     /\ AmoWrite.cb = "mem_write_w"
     /\ AmoWrite.addr = last.pre.X[dec_rs1(last.inst)]
     /\ AmoWrite.val = amo_value(Bits(last.inst, 27, 5), AmoRead.val,
                                 last.pre.X[dec_rs2(last.inst)])

\* C16: X[rd] receives the word the AMO read (X[0] stays 0) and the value
\* written back is op(the word read, X[rs2] as it was before the
\* instruction), for every choice of registers.
C16_AmoOldValueAndResult ==
  AmoDone =>
     /\ rv.X[dec_rd(last.inst)] = (IF dec_rd(last.inst) = 0 THEN 0 ELSE AmoRead.val)
     /\ AmoWrite.val = amo_value(Bits(last.inst, 27, 5), AmoRead.val,
                                 last.pre.X[dec_rs2(last.inst)])

\* AMOADD.W x3, x1, (x0) on the word 4 with X[1] = 4: here rd is not rs2 and
\* the sum fits the halfword written
C16_Witness ==
  /\ AmoDone
  /\ last.inst = AMO(0, 3, 0, 1)
  /\ last.pre.X[1] = 4
  /\ AmoRead.val = 4
  /\ rv.X[3] = 4
  /\ AmoWrite.val = 8

\* the value written agrees with op(the word read, the old X[rs2]) at least
\* in its low halfword (it does not when rd is rs2)
AmoLowHalfAgrees ==
  AmoDone =>
     AmoWrite.val % 65536 =
       amo_value(Bits(last.inst, 27, 5), AmoRead.val, last.pre.X[dec_rs2(last.inst)]) % 65536

\* the load of a load program has just executed; LoadRead is its callback
LoadDone ==
  last.valid /\ dec_index(last.inst) = 0 /\ executed = Len(prog) /\ Len(trace) >= 2

LoadRead == trace[Len(trace)]

\* C17: LB and LBU call mem_read_b, LH and LHU mem_read_s, LW mem_read_w,
\* at the address (X[rs1] + imm) mod 2^32; X[rd] receives the byte or
\* halfword returned, sign-extended for LB and LH and zero-extended for
\* LBU and LHU, or the word unchanged (X[0] stays 0).
C17_LoadsExtendAsNamed ==
  LoadDone =>
     LET f3 == dec_funct3(last.inst)
         rd == dec_rd(last.inst)
         v  == LoadRead.val
     IN  /\ LoadRead.addr = Add32(last.pre.X[dec_rs1(last.inst)], dec_itype_imm(last.inst))
         /\ LoadRead.cb = (CASE f3 \in {0, 4} -> "mem_read_b"
                             [] f3 \in {1, 5} -> "mem_read_s"
                             [] f3 = 2 -> "mem_read_w")
         /\ f3 \in {0, 4} => v \in 0 .. 255
         /\ f3 \in {1, 5} => v \in 0 .. 65535
         /\ rv.X[rd] =
              (IF rd = 0 THEN 0
               ELSE CASE f3 = 0 -> IF v >= 128 THEN v - 256 ELSE v
                      [] f3 = 1 -> IF v >= 32768 THEN v - 65536 ELSE v
                      [] f3 \in {2, 4, 5} -> v)

\* LB of the byte 0xFF gives 0xFFFFFFFF, at an address that wrapped:
\* 0xFFFFFFFF + 1 = 0
C17_Witness ==
  /\ LoadDone
  /\ last.inst = LOAD(0, 3, 1, 1)
  /\ last.pre.X[1] = U32(65535, 65535)
  /\ LoadRead.addr = 0
  /\ LoadRead.val = 255
  /\ rv.X[3] = U32(65535, 65535)

\* the jump of a jump program has just executed
JumpDone ==
  last.valid /\ dec_index(last.inst) \in {25, 27} /\ executed = Len(prog)

\* the target of JAL (index 27) or JALR (index 25) from the state before
JumpTarget(pre, inst) ==
  IF dec_index(inst) = 27
  THEN Add32(pre.PC, dec_jtype_imm(inst))
  ELSE And32(Add32(pre.X[dec_rs1(inst)], dec_itype_imm(inst)), U32(65535, 65534))

\* C18: JAL and JALR leave the old PC + 4 in X[rd] (X[0] stays 0) and the
\* target in PC, PC + imm(J) for JAL and (X[rs1] + imm(I)) & ~1 for JALR,
\* both computed from the state before the instruction, also when rd is
\* rs1 and when the target is misaligned.
C18_JumpLinkAndTarget ==
  JumpDone =>
     /\ rv.PC = JumpTarget(last.pre, last.inst)
     /\ rv.X[dec_rd(last.inst)] =
          (IF dec_rd(last.inst) = 0 THEN 0 ELSE Add32(last.pre.PC, 4))

\* JALR x1, x1, 0 with X[1] = ProgBase + 2: rd is rs1 and the target is
\* misaligned
C18_Witness ==
  /\ JumpDone
  /\ last.inst = JALR(1, 1, 0)
  /\ last.pre.X[1] = ProgBase + 2
  /\ rv.PC = ProgBase + 2
  /\ rv.X[1] = ProgBase + 12
  /\ rv.exception = rv_except_inst_misaligned

\* the instruction calls the host while it executes: ECALL and EBREAK, the
\* loads and stores, the A-extension operations
CallsHost(inst) ==
  \/ dec_index(inst) \in {0, 1, 8, 9, 11}
  \/ dec_index(inst) = 28 /\ dec_funct3(inst) = 0

\* C20: when a host callback sets the latch during an instruction, the
\* handler completes (PC is 4 further and the instruction is counted as
\* one cycle) and no further instruction is fetched: every instruction
\* that executes was fetched with the latch clear, and the callbacks of
\* the call end with those of the cancelled instruction.
C20_CancelledInstructionCompletes ==
  /\ last.valid => last.pre.exception = rv_except_none
  /\ (last.valid /\ host.exc # rv_except_none /\ CallsHost(last.inst)) =>
        /\ rv.exception = host.exc
        /\ rv.PC = Add32(last.pre.PC, 4)
        /\ rv.csr_cycle = Inc64(last.pre.csr_cycle)
        /\ trace # <<>> =>
              /\ Fetches # {}
              /\ \A i \in Fetches :
                    (\A j \in Fetches : j <= i) =>
                       trace[i].addr = last.pre.PC /\ trace[i].val = last.inst

\* rv_step(3) has returned after ECALL, the second instruction, where the
\* host latched its stop: two fetches, two cycles, PC behind the ECALL
C20_Witness ==
  /\ Returned
  /\ call.n = 3
  /\ host.exc = "host_stop"
  /\ last.valid
  /\ last.inst = ECALL
  /\ rv.exception = "host_stop"
  /\ rv.PC = ProgBase + 8
  /\ rv.csr_cycle = U64(0, 2)
  /\ Len(trace) = 3
  /\ rv.X[3] = 0

\* the last mem_ifetch of the current call, and the callbacks made since
LastFetch == CHOOSE i \in Fetches : \A j \in Fetches : j <= i
SinceLastFetch == SubSeq(trace, LastFetch + 1, Len(trace))

\* the instruction executed last was fetched by the current call
LastInCall ==
  /\ last.valid
  /\ Fetches # {}
  /\ trace[LastFetch].addr = last.pre.PC
  /\ trace[LastFetch].val = last.inst

\* ECALL or EBREAK has just executed
TrapDone == LastInCall /\ last.inst \in {ECALL, EBREAK}

\* the hook of a trap
TrapHook(inst) == IF inst = ECALL THEN "on_ecall" ELSE "on_ebreak"

\* C21: ECALL and EBREAK call their hook exactly once, with the PC of the
\* trapping instruction and the instruction word; afterwards PC is that
\* address + 4 and every integer register is as it was before.
C21_TrapCallsHookOnce ==
  TrapDone =>
     /\ SinceLastFetch = <<Ev(TrapHook(last.inst), last.pre.PC, last.inst)>>
     /\ rv.PC = Add32(last.pre.PC, 4)
     /\ rv.X = last.pre.X

\* the same with x0 left out: the hook is called once with the trap's PC
\* and word, PC is 4 further, x1..x31 are untouched and x0 is zero
TrapKeepsUpperRegisters ==
  TrapDone =>
     /\ SinceLastFetch = <<Ev(TrapHook(last.inst), last.pre.PC, last.inst)>>
     /\ rv.PC = Add32(last.pre.PC, 4)
     /\ \A i \in Regs \ {rv_reg_zero} : rv.X[i] = last.pre.X[i]
     /\ rv.X[rv_reg_zero] = 0

\* ECALL has executed with X[0] = 5 before it, left there by FMV.X.W x0
C21_Witness ==
  /\ TrapDone
  /\ last.inst = ECALL
  /\ last.pre.X[rv_reg_zero] = 5
  /\ rv.X[rv_reg_zero] = 0
  /\ rv.PC = ProgBase + 16

\* a call of rv_step is in progress
Stepping == call.op \in {"step", "step_jit"} /\ call.mode \notin {"idle", "abort"}

\* C22: every call rv_step(rv, n) with n >= 0 terminates when every host
\* callback returns, whatever the instruction stream, loops made of
\* control transfers included.
C22_StepTerminates == Stepping ~> ~Stepping

\* in the JIT build, a pass of the outer loop that went through the inner
\* loop has counted a cycle or set the latch
JitPassMakesProgress ==
  [][(call.mode = "inner" /\ call'.mode = "outer") =>
        \/ rv'.csr_cycle # call.pre.csr_cycle
        \/ rv'.exception # rv_except_none]_vars

\* rv_step was called with the latch set
CalledLatched == call.op = "step" /\ call.pre.exception # rv_except_none

\* C23: while the exception latch is set, rv_step(n) makes no fetch and no
\* other callback and leaves every field of the hart as it was, for every
\* n; and the latch goes back to none only through rv_reset.
C23_LatchedStepDoesNothing ==
  /\ [](CalledLatched => (trace = <<>> /\ rv = call.pre /\ mem = call.mem0))
  /\ [][(rv.exception # rv_except_none /\ rv'.exception = rv_except_none)
           => call'.op = "reset"]_vars

\* rv_step(3) has returned on a hart whose latch was set by an instruction
\* executed before
C23_Witness ==
  /\ Returned
  /\ CalledLatched
  /\ call.n = 3
  /\ executed > 0
  /\ rv.exception # rv_except_none

\* the word's sub-opcode fields select no instruction of its group: a
\* LOAD-FP or STORE-FP width other than 32 bits, an OP funct7 other than
\* the base, the M and the alternate one or an alternate funct7 on a funct3
\* other than SUB / SRA, a LOAD, STORE or BRANCH funct3 without instruction,
\* SYSTEM funct3 4 or funct3 0 with an immediate other than 0 and 1
Unsupported(inst) ==
  LET index  == dec_index(inst)
      funct3 == dec_funct3(inst)
      funct7 == dec_funct7(inst)
  IN  \/ index \in {1, 9} /\ funct3 # 2
      \/ index = 12 /\ funct7 \notin {0, 1, 32}
      \/ index = 12 /\ funct7 = 32 /\ funct3 \notin {0, 5}
      \/ index = 0 /\ funct3 \in {3, 6, 7}
      \/ index = 8 /\ funct3 \notin {0, 1, 2}
      \/ index = 24 /\ funct3 \in {2, 3}
      \/ index = 28 /\ funct3 = 4
      \/ index = 28 /\ funct3 = 0 /\ dec_itype_imm(inst) \notin {0, 1}

\* the run loop has dispatched an instruction (retired or not)
Dispatched == last # NoLast

\* C24: a word with an unsupported sub-opcode selector stops the process
\* by assertion: it does not retire, and it changes no register, no memory
\* and not the PC.
C24_UnsupportedSelectorHalts ==
  (Dispatched /\ Unsupported(last.inst)) =>
     /\ ~last.valid
     /\ call.mode = "abort"
     /\ rv = last.pre
     /\ mem = call.mem0

\* the same for the integer groups only (OP, LOAD, STORE, BRANCH, SYSTEM)
UnsupportedIntegerSelectorHalts ==
  (Dispatched /\ Unsupported(last.inst) /\ dec_index(last.inst) \notin {1, 9}) =>
     /\ ~last.valid
     /\ call.mode = "abort"
     /\ rv = last.pre
     /\ mem = call.mem0

\* a LOAD-FP word of width 64 (funct3 = 3) has retired as FLW: F[1] holds
\* the word at address 0 and PC is past it
C24_Witness ==
  /\ last.valid
  /\ last.inst = EncI(7, 1, 3, 0, 0)
  /\ Unsupported(last.inst)
  /\ rv.PC = ProgBase + 8
  /\ rv.csr_cycle = U64(0, 2)
  /\ SinceLastFetch = <<Ev("mem_read_w", 0, 0)>>

\* C25: CSRRW, CSRRS and CSRRC on an index other than cycle, cycleh,
\* mstatus and fcsr write 0 to X[rd] and change nothing else of the hart
\* but the PC, which is 4 further (and the cycle the run loop counts for
\* the instruction); no CSR is written, no callback is made.
C25_UnknownCsrReadsZero ==
  (CsrStudied /\ ~csr_known(dec_csr(last.inst))) =>
     /\ rv = [last.pre EXCEPT !.X[dec_rd(last.inst)] = 0,
                              !.PC = Add32(last.pre.PC, 4),
                              !.csr_cycle = Inc64(last.pre.csr_cycle)]
     /\ mem = call.mem0
     /\ LastInCall => SinceLastFetch = <<>>

\* CSRRS x2, time, x1 has cleared the stack pointer; mstatus keeps the 31
\* a CSRRW wrote before
C25_Witness ==
  /\ CsrStudied
  /\ last.inst = CSRR(2, 2, 3073, 1)
  /\ last.pre.X[2] = DEFAULT_STACK_ADDR
  /\ rv.X[2] = 0
  /\ rv.csr_mstatus = 31
  /\ rv.X[1] = 0 - 1

\* CSRRWI, CSRRSI or CSRRCI, the last instruction of its program, has just
\* executed
CsrImmStudied ==
  /\ last.valid
  /\ dec_index(last.inst) = 28
  /\ dec_funct3(last.inst) \in 5 .. 7
  /\ executed = Len(prog)

\* C26: CSRRWI, CSRRSI and CSRRCI have no effect: no CSR and no integer
\* register changes, X[rd] included; only PC is 4 further (and the run
\* loop counts the instruction).
C26_CsrImmediateNoEffect ==
  CsrImmStudied =>
     /\ rv = [last.pre EXCEPT !.PC = Add32(last.pre.PC, 4),
                              !.csr_cycle = Inc64(last.pre.csr_cycle)]
     /\ mem = call.mem0

\* the same with x0 left out: x0 is zero afterwards when rd is x0
CsrImmediateKeepsUpperRegisters ==
  CsrImmStudied =>
     /\ rv = [last.pre EXCEPT !.PC = Add32(last.pre.PC, 4),
                              !.csr_cycle = Inc64(last.pre.csr_cycle),
                              !.X[rv_reg_zero] =
                                 IF dec_rd(last.inst) = rv_reg_zero
                                 THEN 0 ELSE last.pre.X[rv_reg_zero]]
     /\ mem = call.mem0

\* CSRRWI x0, mstatus, 31 has executed with X[0] = 1 before it, left there
\* by FEQ.S x0: mstatus is still 0 and X[0] is 0
C26_Witness ==
  /\ CsrImmStudied
  /\ last.inst = CSRR(5, 0, CSR_MSTATUS, 31)
  /\ last.pre.X[rv_reg_zero] = 1
  /\ rv.X[rv_reg_zero] = 0
  /\ rv.csr_mstatus = 0

\* C27: between two resets csr_cycle never decreases, and a step of the
\* program changes it by the run loop's increment of 1 or not at all,
\* CSRRW / CSRRS / CSRRC on cycle and cycleh included.
C27_CycleMonotonic ==
  [][call'.op # "reset" =>
        /\ rv'.csr_cycle \in {rv.csr_cycle, Inc64(rv.csr_cycle)}
        /\ ~ULt64(rv'.csr_cycle, rv.csr_cycle)]_vars

\* CSRRS x0, cycle, x2 has executed as the first instruction after a reset:
\* the counter holds the run loop's 1
C27_Witness ==
  /\ last.valid
  /\ last.inst = CSRR(2, 0, CSR_CYCLE, 2)
  /\ last.pre.csr_cycle = U64(0, 0)
  /\ rv.csr_cycle = U64(0, 1)
  /\ executed = 1

\* C28: fcsr is 0 in every reachable state: rv_reset clears it and no
\* instruction, floating-point operations and CSR writes included, changes
\* it.
C28_FcsrStaysZero == rv.csr_fcsr = 0

\* CSRRS x3, fcsr, x2 has executed after a floating-point operation: x3
\* holds the 0 read and fcsr is 0
C28_Witness ==
  /\ last.valid
  /\ last.inst = CSRR(2, 3, CSR_FCSR, 2)
  /\ executed = 3
  /\ rv.X[3] = 0
  /\ rv.csr_fcsr = 0

\* the LR.W (funct5 = 2) or SC.W (funct5 = 3) under study has just executed
LrScDone(funct5) ==
  /\ LastInCall
  /\ dec_index(last.inst) = 11
  /\ Bits(last.inst, 27, 5) = funct5
  /\ executed = Len(prog)

\* the hart before the last instruction with v in X[rd] (x0 stays 0), PC 4
\* further and the cycle counted
RetiredWith(v) ==
  [last.pre EXCEPT !.X[dec_rd(last.inst)] = IF dec_rd(last.inst) = 0 THEN 0 ELSE v,
                   !.PC = Add32(last.pre.PC, 4),
                   !.csr_cycle = Inc64(last.pre.csr_cycle)]

\* C29: LR.W reads the word at X[rs1] through mem_read_w into X[rd] and
\* stores nothing; SC.W stores X[rs2] as it was before the instruction at
\* X[rs1] through mem_write_w and writes 0 to X[rd], whatever ran since the
\* last LR.W, also for rd = rs1 and rd = rs2.
C29_LrLoadsScStores ==
  /\ LrScDone(2) =>
        LET addr == last.pre.X[dec_rs1(last.inst)]
            w    == host_read_w(mem, addr)
        IN  /\ SinceLastFetch = <<Ev("mem_read_w", addr, w)>>
            /\ rv = RetiredWith(w)
  /\ LrScDone(3) =>
        LET addr == last.pre.X[dec_rs1(last.inst)]
            data == last.pre.X[dec_rs2(last.inst)]
        IN  /\ SinceLastFetch = <<Ev("mem_write_w", addr, data)>>
            /\ rv = RetiredWith(0)
            /\ addr \in {0, 4} => host_read_w(mem, addr) = data

\* SC.W x1, x1, (x1) with X[1] = 4 and no LR.W before: the word at address
\* 4 is 4 and X[1] is 0
C29_Witness ==
  /\ LrScDone(3)
  /\ last.inst = AMO(3, 1, 1, 1)
  /\ last.pre.X[1] = 4
  /\ prog[4] = NOP
  /\ host_read_w(mem, 4) = 4
  /\ rv.X[1] = 0

\* LR.W x3, (x0) has read the full word stored at address 0
LrReadsStoredWord ==
  /\ LrScDone(2)
  /\ last.inst = AMO(2, 3, 0, 0)
  /\ rv.X[3] = U32(4660, 22136)

\* x + y on 64 bits
Add64(x, y) ==
  LET lo == Add32(x.lo, y.lo)
  IN  [lo |-> lo,
       hi |-> Add32(Add32(x.hi, y.hi), IF ULt(lo, x.lo) THEN 1 ELSE 0)]

\* bit i of the word b
BitOf(b, i) == IF i = 31 THEN b < 0 ELSE Bits(b, i, 1) = 1

\* acc + x * (bits i .. 31 of b, shifted down by i), by shifting and adding
RECURSIVE ShiftAdd(_, _, _, _)
ShiftAdd(acc, x, b, i) ==
  IF i = 32 THEN acc
  ELSE CHOOSE out \in
         { ShiftAdd(st.acc, st.x, b, i + 1) :
           st \in {[acc |-> IF BitOf(b, i) THEN Add64(acc, x) ELSE acc,
                    x   |-> Add64(x, x)]} } : TRUE

\* the 64-bit product of a and b, each read as signed or as unsigned: a is
\* extended to 64 bits and multiplied by the unsigned reading of b; for a
\* negative signed b, a * 2^32 is taken off
Product(a, signed_a, b, signed_b) ==
  LET x == IF signed_a THEN SExt64(a) ELSE ZExt64(a)
      p == ShiftAdd(U64(0, 0), x, b, 0)
  IN  IF signed_b /\ b < 0 THEN [p EXCEPT !.hi = Sub32(p.hi, x.lo)] ELSE p

\* the multiplication under study has just executed
MulDone ==
  /\ last.valid
  /\ dec_index(last.inst) = 12
  /\ dec_funct7(last.inst) = 1
  /\ dec_funct3(last.inst) \in 0 .. 3
  /\ executed = Len(prog)

\* what the specification asks of the multiplication inst for X[rd]
MulExpected(inst, a, b) ==
  CASE dec_funct3(inst) = 0 -> Product(a, TRUE, b, TRUE).lo
    [] dec_funct3(inst) = 1 -> Product(a, TRUE, b, TRUE).hi
    [] dec_funct3(inst) = 2 -> Product(a, TRUE, b, FALSE).hi
    [] dec_funct3(inst) = 3 -> Product(a, FALSE, b, FALSE).hi

\* C30: MULH, MULHSU and MULHU write bits 63..32 of the exact product of
\* X[rs1] and X[rs2] read as signed x signed, signed x unsigned and
\* unsigned x unsigned, and MUL writes its bits 31..0 (x0 stays 0).
C30_MulFamilyExact ==
  MulDone =>
     rv.X[dec_rd(last.inst)] =
        IF dec_rd(last.inst) = 0 THEN 0
        ELSE MulExpected(last.inst, last.pre.X[dec_rs1(last.inst)],
                                    last.pre.X[dec_rs2(last.inst)])

\* MULHSU x3, x1, x2 with X[1] = -7 and X[2] = 0xFFFFFFFF: the product is
\* -7 * (2^32 - 1), whose upper word is -7
C30_Witness ==
  /\ MulDone
  /\ last.inst = MULDIV(2, 3, 1, 2)
  /\ last.pre.X[1] = 0 - 7
  /\ last.pre.X[2] = 0 - 1
  /\ rv.X[3] = 0 - 7

\* rv_step was called with a negative budget
CalledNegative == call.op = "step" /\ call.n < 0

\* C31: rv_step with a negative budget executes no instruction and leaves
\* the hart as it was, whatever csr_cycle is: the target computed from the
\* budget is never above the cycle count at entry.
C31_NegativeBudgetDoesNothing ==
  CalledNegative =>
     /\ ~ULt64(call.pre.csr_cycle, call.target)
     /\ trace = <<>>
     /\ rv = call.pre
     /\ mem = call.mem0

\* the same when csr_cycle at entry is at least the size of the budget
NegativeBudgetBelowCycleCount ==
  (/\ CalledNegative
   /\ call.pre.csr_cycle.hi = 0
   /\ call.pre.csr_cycle.lo >= 0 - call.n) =>
     /\ ~ULt64(call.pre.csr_cycle, call.target)
     /\ trace = <<>>
     /\ rv = call.pre
     /\ mem = call.mem0

\* rv_step(-1) right after a reset: the target is 2^64 - 1 and an
\* instruction has been fetched and counted
C31_Witness ==
  /\ CalledNegative
  /\ call.n = 0 - 1
  /\ call.pre.csr_cycle = U64(0, 0)
  /\ call.pre.exception = rv_except_none
  /\ call.target = U64(0 - 1, 0 - 1)
  /\ Fetches # {}
  /\ rv.csr_cycle = U64(0, 1)

====
